---- MODULE Spec2Model ----
(***************************************************************************)
(* The Intcode virtual machine of the repository and its cooperative       *)
(* scheduler.  Two copies of the machine are modelled, selected by the     *)
(* variable variant:                                                       *)
(*   "d7"   src/7/src/process.rs   Position/Immediate, memory = program    *)
(*   "d21"  src/21/src/process.rs  adds Relative, memory of 10240 cells    *)
(* Addresses are 0-based as in the source.  A Rust panic is recorded in the *)
(* variable panic and ends the run.                                        *)
(***************************************************************************)
EXTENDS Integers, Sequences, FiniteSets, TLC

VARIABLES
    variant,              \* which process.rs the processes run
    wide,                 \* whether the i64 values of the run are kept as bytes
    profile,              \* the build: "debug" (an arithmetic overflow panics)
                          \* or "release" (it wraps)
    program,              \* program[i]: the Program process i was created from
    memory,               \* memory[i]: Process.memory
    instruction_pointer,  \* instruction_pointer[i]: Process.instruction_pointer
    relative_base,        \* relative_base[i]: Process.relative_base (as isize)
    input,                \* input[i]: index of the Channel bound as input
    output,               \* output[i]: index of the Channel bound as output
    channels,             \* channels[c]: Channel.buffer
    state,                \* state[i]: "New", "Running" (inside execute), or the
                          \* State last returned: "Blocked", "Complete"
    first,                \* history: first[i], the state the process was called
                          \* in while no instruction of the call has run, else ""
    blocks,               \* history: blocks[i], how often execute returned
                          \* Blocked, counted up to 2
    panic,                \* "" or the kind of panic that aborted the run
    processes,            \* run_to_completion: the vector being swept
    iter,                 \* run_to_completion: position of the for loop in it
    remaining_processes,  \* run_to_completion: the vector being built
    rtc,                  \* run_to_completion: "none", "while", "for", "exec",
                          \* "returned"
    signal,               \* get_output_signal: <<>> or <<the value returned>>
    sweep,                \* history: the processes active when the sweep began
    called,               \* history: the processes execute was called on in
                          \* this sweep, in call order
    puts,                 \* history: every value put on the channel under test
    gets,                 \* history: every value a get on it returned
    last_get,             \* history: <<>>, or <<r>> for the Option r the latest
                          \* get on it returned
    interfaces,           \* Router.interfaces: interfaces[a] is the Nic of
                          \* address a
    nat,                  \* Router.nat
    last_op,              \* history: the latest call on the network, the value
                          \* it returned (get) or was passed (put), the packets
                          \* it passed to Router::send and whether it printed
                          \* "Duplicate Packet"
    arrived,              \* history: the (x, y) of the packets dispatched to
                          \* address 255, in order
    forwarded,            \* history: None, or Some of the (x, y) of the latest
                          \* packet the NAT forwarded
    since_forward,        \* history: the reads of NIC 0 since the latest
                          \* forward, counted up to 3
    started,              \* history: how many packets the processes have
                          \* begun to write
    call,                 \* a function called on its own: <<>>, or its name,
                          \* its arguments and, once it has returned, its result
    last_read             \* history: last_read[a] tells what the latest read of
                          \* NIC a found: "address", "value" (a queued value),
                          \* "empty" (nothing queued), or "none" before any read

vmvars == <<variant, wide, profile, program, memory, instruction_pointer,
            relative_base,
            input, output, state, first, blocks, panic>>

schedvars == <<processes, iter, remaining_processes, rtc, signal, sweep, called>>

chanvars == <<puts, gets, last_get>>

netvars == <<interfaces, nat, last_op, arrived, forwarded, since_forward,
             started, last_read>>

vars == <<vmvars, channels, schedvars, chanvars, netvars, call>>

(***************************************************************************)
(* Bounds of the model and constants of the program.                       *)
(***************************************************************************)
MEMORY_SIZE == 10240

\* No channel is put to when it already holds MaxQueue values.
MaxQueue == 2

\* The channel under test is put to at most MaxPuts times.
MaxPuts == 4

\* The branch tests are run on the inputs -MaxValue .. MaxValue.
MaxValue == 4

\* run_to_completion is given at most MaxProcs processes of the small
\* programs (the amplifier ring always has its five).
MaxProcs == 3

(***************************************************************************)
(* Rust integer division and remainder truncate towards zero.              *)
(***************************************************************************)
RustDiv(a, b) == IF a >= 0 THEN a \div b ELSE -((-a) \div b)

RustRem(a, b) == IF a >= 0 THEN a % b ELSE -((-a) % b)

RECURSIVE pow(_, _)
pow(b, e) == IF e = 0 THEN 1 ELSE b * pow(b, e - 1)

(***************************************************************************)
(* i64.  The model checker's integers are narrower than 64 bits, so a run  *)
(* may keep its i64 values as I64_BYTES bytes, least significant first, in *)
(* two's complement (wide = TRUE); the other runs keep them as integers    *)
(* and only hold values far inside the range.                              *)
(***************************************************************************)
I64_BYTES == 8

BYTE == 256

FromNat(n, bytes) ==
    [k \in 1..bytes |-> IF k <= 4 THEN (n \div pow(BYTE, k - 1)) % BYTE ELSE 0]

Complement(w) == [k \in DOMAIN w |-> BYTE - 1 - w[k]]

\* The bytes of the integer n.
FromInt(n) ==
    IF n >= 0 THEN FromNat(n, I64_BYTES) ELSE Complement(FromNat(-n - 1, I64_BYTES))

IsNeg(w) == w[Len(w)] >= BYTE \div 2

\* Sign extension (or truncation) to the given number of bytes.
Resize(w, bytes) ==
    [k \in 1..bytes |-> IF k <= Len(w) THEN w[k]
                        ELSE IF IsNeg(w) THEN BYTE - 1 ELSE 0]

\* Whether the value is one an integer of the model can hold.
Fits(w) == Resize(Resize(w, 4), Len(w)) = w

NatOf(w) == w[1] + BYTE * w[2] + BYTE * BYTE * w[3] + BYTE * BYTE * BYTE * w[4]

\* The integer with the bytes w, when it Fits.
ToInt(w) == IF IsNeg(w) THEN -NatOf(Complement(w)) - 1 ELSE NatOf(w)

\* a + b modulo BYTE^Len(a).
BytesAdd(a, b) ==
    LET sum[k \in 0..Len(a)] ==
            IF k = 0 THEN 0 ELSE a[k] + b[k] + (sum[k - 1] \div BYTE)
    IN  [k \in 1..Len(a) |-> sum[k] % BYTE]

BytesNeg(w) == BytesAdd(Complement(w), [k \in DOMAIN w |-> IF k = 1 THEN 1 ELSE 0])

\* a * b modulo BYTE^Len(a).
BytesMul(a, b) ==
    LET RECURSIVE column(_, _)
        column(k, i) == IF i > k THEN 0 ELSE a[i] * b[k + 1 - i] + column(k, i + 1)
        sum[k \in 0..Len(a)] ==
            IF k = 0 THEN 0 ELSE column(k, 1) + (sum[k - 1] \div BYTE)
    IN  [k \in 1..Len(a) |-> sum[k] % BYTE]

\* a < b as signed values.
BytesLess(a, b) ==
    IF IsNeg(a) # IsNeg(b) THEN IsNeg(a)
    ELSE \E k \in DOMAIN a :
            /\ a[k] < b[k]
            /\ \A j \in (k + 1)..Len(a) : a[j] = b[j]

\* |w| modulo m, with the sign of w: w % m of Rust, for 0 < m <= 10^7.
BytesRem(w, m) ==
    LET mag == IF IsNeg(w) THEN BytesNeg(w) ELSE w
        rem[k \in 0..Len(w)] ==
            IF k = 0 THEN 0
            ELSE LET byte == mag[Len(w) + 1 - k]
                     high == (rem[k - 1] * 16 + (byte \div 16)) % m
                 IN  (high * 16 + (byte % 16)) % m
    IN  IF IsNeg(w) THEN -rem[Len(w)] ELSE rem[Len(w)]

\* The value with the given decimal digits, most significant first.
RECURSIVE Decimal(_)
Decimal(digits) ==
    IF digits = <<>> THEN FromInt(0)
    ELSE BytesAdd(BytesMul(Decimal(SubSeq(digits, 1, Len(digits) - 1)), FromInt(10)),
                  FromInt(digits[Len(digits)]))

\* -9223372036854775808
I64_MIN == [k \in 1..I64_BYTES |-> IF k = I64_BYTES THEN BYTE \div 2 ELSE 0]

\* The i64 value n, an integer of the model, as the run keeps it.
Val(n) == IF wide THEN FromInt(n) ELSE n

\* i64 `+` and `*`, wrapping in a wide run.
i64_add(a, b) ==
    IF wide THEN CHOOSE r \in {BytesAdd(u, v) : u \in {a}, v \in {b}} : TRUE
    ELSE a + b

\* A `*` whose result is cut to 32 bits.
i64_mul_32(a, b) ==
    IF wide THEN CHOOSE r \in {Resize(Resize(BytesMul(u, v), 4), I64_BYTES) :
                                   u \in {a}, v \in {b}} : TRUE
    ELSE a * b

i64_mul(a, b) ==
    IF wide THEN CHOOSE r \in {BytesMul(u, v) : u \in {a}, v \in {b}} : TRUE
    ELSE a * b

\* Whether a + b, or a * b, is outside the range of i64 (and of isize).
add_overflows(a, b) ==
    IF wide
    THEN CHOOSE r \in {IsNeg(u) = IsNeg(v) /\ IsNeg(BytesAdd(u, v)) # IsNeg(u) :
                           u \in {a}, v \in {b}} : TRUE
    ELSE FALSE

mul_overflows(a, b) ==
    IF wide
    THEN CHOOSE r \in {BytesMul(Resize(u, 2 * I64_BYTES), Resize(v, 2 * I64_BYTES))
                           # Resize(BytesMul(u, v), 2 * I64_BYTES) :
                           u \in {a}, v \in {b}} : TRUE
    ELSE FALSE

\* An overflow panics where the build checks for it.
Panics(overflow) == profile = "debug" /\ overflow

\* i64 `<`.
i64_less(a, b) ==
    IF wide THEN CHOOSE r \in {BytesLess(u, v) : u \in {a}, v \in {b}} : TRUE
    ELSE a < b

\* The decimal digits of an instruction word that decoding looks at.
WordDigits == 10000000

\* The instruction word as decoding sees it: a wide word by its low digits,
\* which are all that the opcode and the three mode digits depend on.
Word(x) ==
    IF wide THEN CHOOSE r \in {BytesRem(u, WordDigits) : u \in {x}} : TRUE
    ELSE x

\* `as usize` of a value used as an index: a wide value that is no integer
\* of the model is beyond every memory, as is a negative one.
Index(x) ==
    IF wide THEN CHOOSE r \in {IF Fits(u) THEN ToInt(u) ELSE -1 : u \in {x}} : TRUE
    ELSE x

(***************************************************************************)
(* Modes::mode.  The two copies extract the digit differently.             *)
(***************************************************************************)
\* A mode digit that keeps the digits above it.
ModeDigit21_whole(modes, index) == RustDiv(modes, pow(10, index))

ModeDigit21(modes, index) == RustDiv(RustRem(modes, pow(10, index + 1)), pow(10, index))

ModeDigit7(modes, index) == RustRem(RustDiv(modes, pow(10, index)), pow(10, index + 1))

Modes_mode(v, modes, index) ==
    IF v = "d21"
    THEN LET mode == ModeDigit21(modes, index)
         IN  CASE mode = 0 -> "Position"
               [] mode = 1 -> "Immediate"
               [] mode = 2 -> "Relative"
               [] OTHER    -> "Err"
    ELSE LET mode == ModeDigit7(modes, index)
         IN  CASE mode = 0 -> "Position"
               [] mode = 1 -> "Immediate"
               [] OTHER    -> "Err"

(***************************************************************************)
(* Memory: a boxed slice of size cells.  The model keeps the cells up to   *)
(* the last one that is not 0 (cells) and the number of cells (size): the  *)
(* cells from Len(cells) to size - 1 hold 0.  Indexing outside 0 .. size-1 *)
(* panics; a negative i64 cast to usize is far above any size.             *)
(***************************************************************************)
Trim(s) ==
    LET n == CHOOSE k \in 0..Len(s) :
                 /\ k = 0 \/ s[k] # Val(0)
                 /\ \A j \in (k + 1)..Len(s) : s[j] = Val(0)
    IN  SubSeq(s, 1, n)

\* (s is evaluated once, then trimmed.)
Memory(size, s) ==
    [size |-> size, cells |-> CHOOSE t \in {Trim(u) : u \in {s}} : TRUE]

InBounds(m, a) == a >= 0 /\ a < m.size

Load(m, a) == IF a < Len(m.cells) THEN m.cells[a + 1] ELSE Val(0)

Store(m, a, x) ==
    Memory(m.size, [k \in 1..(IF a < Len(m.cells) THEN Len(m.cells) ELSE a + 1) |->
                       IF k = a + 1 THEN x
                       ELSE IF k <= Len(m.cells) THEN m.cells[k] ELSE Val(0)])

(***************************************************************************)
(* Parameters::get and Parameters::get_address.  data is &memory[ip+1..],  *)
(* so data[index] is cell base + index.  A parameter that cannot be built  *)
(* has mode "Panic" and the kind of panic as its value.                    *)
(***************************************************************************)
Parameters_get(v, m, base, modes, index) ==
    LET mode == Modes_mode(v, modes, index)
    IN  IF mode = "Err"
        THEN [mode |-> "Panic", value |-> "decode"]
        ELSE IF ~InBounds(m, base + index)
        THEN [mode |-> "Panic", value |-> "bounds"]
        ELSE [mode |-> mode, value |-> Load(m, base + index)]

Parameters_get_address(m, base, index) ==
    IF ~InBounds(m, base + index)
    THEN [mode |-> "Panic", value |-> "bounds"]
    ELSE [mode |-> "Address", value |-> Load(m, base + index)]

\* The output operand: a Parameter in d21, a bare address in d7.
OutputOperand(v, m, base, modes, index) ==
    IF v = "d21" THEN Parameters_get(v, m, base, modes, index)
                 ELSE Parameters_get_address(m, base, index)

PanicInstruction(why) == [name |-> "Panic", why |-> why]

\* The operands of an instruction in the order its struct expression
\* evaluates them.
Operands(ins) ==
    CASE ins.name \in {"Add", "Mul", "LessThan", "Equals"} -> <<ins.x, ins.y, ins.output>>
      [] ins.name \in {"JumpIfTrue", "JumpIfFalse"} -> <<ins.input, ins.address>>
      [] ins.name = "Input" -> <<ins.output>>
      [] ins.name = "Output" -> <<ins.input>>
      [] ins.name = "RelativeBaseOffset" -> <<ins.offset>>
      [] OTHER -> <<>>

\* The first operand that cannot be built panics.
Checked(ins) ==
    LET params == Operands(ins)
    IN  IF \E k \in 1..Len(params) : params[k].mode = "Panic"
        THEN LET k == CHOOSE j \in 1..Len(params) :
                          /\ params[j].mode = "Panic"
                          /\ \A h \in 1..(j - 1) : params[h].mode # "Panic"
             IN  PanicInstruction(params[k].value)
        ELSE ins

Opcode(word) == RustRem(word, 100)

(***************************************************************************)
(* Instruction::parse on &memory[ip..].  P[i] is parameters.get(i) and     *)
(* O[i] the output operand at i; only those the opcode names are built.    *)
(***************************************************************************)
Instruction_build(v, opcode, P, O) ==
    CASE opcode = 1 -> [name |-> "Add", x |-> P[0], y |-> P[1], output |-> O[2]]
      [] opcode = 2 -> [name |-> "Mul", x |-> P[0], y |-> P[1], output |-> O[2]]
      [] opcode = 3 -> [name |-> "Input", output |-> O[0]]
      [] opcode = 4 -> [name |-> "Output", input |-> P[0]]
      [] opcode = 5 -> [name |-> "JumpIfTrue", input |-> P[0], address |-> P[1]]
      [] opcode = 6 -> [name |-> "JumpIfFalse", input |-> P[0], address |-> P[1]]
      [] opcode = 7 -> [name |-> "LessThan", x |-> P[0], y |-> P[1], output |-> O[2]]
      [] opcode = 8 -> [name |-> "Equals", x |-> P[0], y |-> P[1], output |-> O[2]]
      [] opcode = 9 /\ v = "d21" -> [name |-> "RelativeBaseOffset", offset |-> P[0]]
      [] opcode = 99 -> [name |-> "Exit"]
      [] OTHER -> PanicInstruction("decode")

\* (P and O are evaluated once.)
Instruction_decode(v, m, ip, word) ==
    CHOOSE checked \in
        {Checked(Instruction_build(v, Opcode(word), P, O)) :
            P \in {[i \in 0..2 |-> Parameters_get(v, m, ip + 1, RustDiv(word, 100), i)]},
            O \in {[i \in 0..2 |-> OutputOperand(v, m, ip + 1, RustDiv(word, 100), i)]}} :
        TRUE

\* A parse that wants the words of the longest instruction in its slice.
Instruction_parse_longest(v, m, ip) ==
    IF ~InBounds(m, ip + 3)
    THEN PanicInstruction("bounds")
    ELSE Instruction_decode(v, m, ip, Word(Load(m, ip)))

Instruction_parse(v, m, ip) ==
    IF ~InBounds(m, ip)
    THEN PanicInstruction("bounds")
    ELSE Instruction_decode(v, m, ip, Word(Load(m, ip)))

Instruction_size(ins) ==
    CASE ins.name \in {"Add", "Mul", "LessThan", "Equals"} -> 4
      [] ins.name \in {"JumpIfTrue", "JumpIfFalse"} -> 3
      [] ins.name \in {"Input", "Output", "RelativeBaseOffset"} -> 2
      [] ins.name = "Exit" -> 1

(***************************************************************************)
(* Channel: a Vec used as a queue.                                         *)
(***************************************************************************)
\* Option<i64>: None, Some(value).
None == <<>>

Some(value) == <<value>>

\* A get that takes the newest value (Vec::pop) instead of the oldest.
Channel_get_newest(buffer) ==
    IF buffer # <<>>
    THEN [some |-> TRUE, value |-> buffer[Len(buffer)],
          buffer |-> SubSeq(buffer, 1, Len(buffer) - 1)]
    ELSE [some |-> FALSE, value |-> 0, buffer |-> buffer]

Channel_get(buffer) ==
    IF buffer # <<>>
    THEN [some |-> TRUE, value |-> Head(buffer), buffer |-> Tail(buffer)]
    ELSE [some |-> FALSE, value |-> 0, buffer |-> buffer]

\* A mailbox of one value: a put on a channel that holds a value is lost.
Channel_put_bounded(buffer, value) ==
    IF buffer = <<>> THEN Append(buffer, value) ELSE buffer

Channel_put(buffer, value) == Append(buffer, value)

(***************************************************************************)
(* Process::resolve / Parameter::resolve and Process::resolve_address.     *)
(* p is [memory, instruction_pointer, relative_base].                      *)
(***************************************************************************)
\* A resolve that takes a Relative parameter for a Position one.
resolve_absolute(p, parameter) ==
    IF parameter.mode = "Immediate"
    THEN [ok |-> TRUE, value |-> parameter.value]
    ELSE IF InBounds(p.memory, Index(parameter.value))
    THEN [ok |-> TRUE, value |-> Load(p.memory, Index(parameter.value))]
    ELSE [ok |-> FALSE, value |-> 0]

resolve(p, parameter) ==
    CASE parameter.mode = "Position" ->
           IF InBounds(p.memory, Index(parameter.value))
           THEN [ok |-> TRUE, value |-> Load(p.memory, Index(parameter.value))]
           ELSE [ok |-> FALSE, value |-> 0]
      [] parameter.mode = "Immediate" ->
           [ok |-> TRUE, value |-> parameter.value]
      [] parameter.mode = "Relative" ->
           IF /\ ~Panics(add_overflows(p.relative_base, parameter.value))
              /\ InBounds(p.memory, Index(i64_add(p.relative_base, parameter.value)))
           THEN [ok |-> TRUE,
                 value |-> Load(p.memory, Index(i64_add(p.relative_base, parameter.value)))]
           ELSE [ok |-> FALSE, value |-> 0]

\* A resolve_address that takes a Relative destination for a Position one.
resolve_address_absolute(p, parameter) == Index(parameter.value)

resolve_address(p, parameter) ==
    CASE parameter.mode = "Relative" -> Index(i64_add(p.relative_base, parameter.value))
      [] OTHER -> Index(parameter.value)

\* Whether the sum of resolve_address is outside the range of isize.
address_overflows(p, parameter) ==
    /\ parameter.mode = "Relative"
    /\ add_overflows(p.relative_base, parameter.value)

(***************************************************************************)
(* One iteration of the loop of Process::execute.  The outcome names the   *)
(* process afterwards, the input buffer afterwards, the value put (if any) *)
(* and how the iteration ends: "Continue" (loop again), "Blocked",         *)
(* "Complete" (returns) or "Panic".                                        *)
(***************************************************************************)
Outcome(p, inbuf, put, result) ==
    [proc |-> p, input |-> inbuf, put |-> put, result |-> result]

\* The store of an instruction with two operands: destination is its third
\* parameter, overflow tells whether computing the value overflowed.
StoreResult(p, inbuf, x, y, destination, value, overflow) ==
    IF \/ ~x.ok
       \/ ~y.ok
       \/ Panics(address_overflows(p, destination) \/ overflow)
       \/ ~InBounds(p.memory, resolve_address(p, destination))
    THEN Outcome(p, inbuf, <<>>, "Panic")
    ELSE Outcome([p EXCEPT !.memory = Store(@, resolve_address(p, destination), value)],
                 inbuf, <<>>, "Continue")

\* An Add that clears its destination before it reads its operands.
ExecAdd_clears_first(p, inbuf, ins) ==
    LET destination == resolve_address(p, ins.output)
        cleared == IF InBounds(p.memory, destination)
                   THEN [p EXCEPT !.memory = Store(@, destination, Val(0))]
                   ELSE p
        x == resolve(cleared, ins.x)
        y == resolve(cleared, ins.y)
    IN  StoreResult(p, inbuf, x, y, ins.output, i64_add(x.value, y.value),
                    x.ok /\ y.ok /\ add_overflows(x.value, y.value))

ExecAdd(p, inbuf, ins) ==
    LET x == resolve(p, ins.x)
        y == resolve(p, ins.y)
    IN  StoreResult(p, inbuf, x, y, ins.output, i64_add(x.value, y.value),
                    x.ok /\ y.ok /\ add_overflows(x.value, y.value))

ExecMul(p, inbuf, ins) ==
    LET x == resolve(p, ins.x)
        y == resolve(p, ins.y)
    IN  StoreResult(p, inbuf, x, y, ins.output, i64_mul(x.value, y.value),
                    x.ok /\ y.ok /\ mul_overflows(x.value, y.value))

\* A rewind that leaves the pointer behind the Input: the Input is skipped.
RewindSkipsInput(ip, size) == ip

\* The rewind of the instruction pointer before returning Blocked.
Rewind(ip, size) == ip - size

\* An Input that blocks after it has cleared the cell it was to write.
ExecInputClearsCell(p, inbuf, ins) ==
    LET got == Channel_get(inbuf)
    IN  IF got.some
        THEN Outcome([p EXCEPT !.memory = Store(@, resolve_address(p, ins.output), got.value)],
                     got.buffer, <<>>, "Continue")
        ELSE Outcome([p EXCEPT !.instruction_pointer = Rewind(@, Instruction_size(ins)),
                               !.memory = Store(@, resolve_address(p, ins.output), Val(-1))],
                     got.buffer, <<>>, "Blocked")

ExecInput(p, inbuf, ins) ==
    LET got == Channel_get(inbuf)
    IN  IF got.some
        THEN LET out == resolve_address(p, ins.output)
             IN  IF /\ ~Panics(address_overflows(p, ins.output))
                    /\ InBounds(p.memory, out)
                 THEN Outcome([p EXCEPT !.memory = Store(@, out, got.value)],
                              got.buffer, <<>>, "Continue")
                 ELSE Outcome(p, got.buffer, <<>>, "Panic")
        ELSE Outcome([p EXCEPT !.instruction_pointer = Rewind(@, Instruction_size(ins))],
                     got.buffer, <<>>, "Blocked")

\* An Output that hands control back once it has put its value.
ExecOutput_returns(p, inbuf, ins) ==
    LET value == resolve(p, ins.input)
    IN  IF value.ok
        THEN Outcome(p, inbuf, <<value.value>>, "Blocked")
        ELSE Outcome(p, inbuf, <<>>, "Panic")

ExecOutput(p, inbuf, ins) ==
    LET value == resolve(p, ins.input)
    IN  IF value.ok
        THEN Outcome(p, inbuf, <<value.value>>, "Continue")
        ELSE Outcome(p, inbuf, <<>>, "Panic")

\* resolve(&address) is evaluated only when the jump is taken.
ExecJump(p, inbuf, ins, taken) ==
    LET value == resolve(p, ins.input)
    IN  IF ~value.ok
        THEN Outcome(p, inbuf, <<>>, "Panic")
        ELSE IF taken[value.value # Val(0)]
        THEN LET address == resolve(p, ins.address)
             IN  IF address.ok
                 THEN Outcome([p EXCEPT !.instruction_pointer = Index(address.value)],
                              inbuf, <<>>, "Continue")
                 ELSE Outcome(p, inbuf, <<>>, "Panic")
        ELSE Outcome(p, inbuf, <<>>, "Continue")

ExecJumpIfTrue(p, inbuf, ins) ==
    ExecJump(p, inbuf, ins, [nonzero \in BOOLEAN |-> nonzero])

\* A JumpIfFalse that jumps when the value is not zero.
ExecJumpIfFalse_inverted(p, inbuf, ins) ==
    ExecJump(p, inbuf, ins, [nonzero \in BOOLEAN |-> nonzero])

ExecJumpIfFalse(p, inbuf, ins) ==
    ExecJump(p, inbuf, ins, [nonzero \in BOOLEAN |-> ~nonzero])

ExecLessThan(p, inbuf, ins) ==
    LET x == resolve(p, ins.x)
        y == resolve(p, ins.y)
    IN  StoreResult(p, inbuf, x, y, ins.output,
                    IF i64_less(x.value, y.value) THEN Val(1) ELSE Val(0), FALSE)

ExecEquals(p, inbuf, ins) ==
    LET x == resolve(p, ins.x)
        y == resolve(p, ins.y)
    IN  StoreResult(p, inbuf, x, y, ins.output,
                    IF x.value = y.value THEN Val(1) ELSE Val(0), FALSE)

\* A RelativeBaseOffset that adds the word of its parameter, unresolved.
ExecRelativeBaseOffset_raw(p, inbuf, ins) ==
    LET offset == resolve(p, ins.offset)
    IN  IF offset.ok /\ ~Panics(add_overflows(p.relative_base, ins.offset.value))
        THEN Outcome([p EXCEPT !.relative_base = i64_add(@, ins.offset.value)],
                     inbuf, <<>>, "Continue")
        ELSE Outcome(p, inbuf, <<>>, "Panic")

\* A RelativeBaseOffset that sets the relative base to the offset.
ExecRelativeBaseOffset_sets(p, inbuf, ins) ==
    LET offset == resolve(p, ins.offset)
    IN  IF offset.ok
        THEN Outcome([p EXCEPT !.relative_base = offset.value], inbuf, <<>>, "Continue")
        ELSE Outcome(p, inbuf, <<>>, "Panic")

ExecRelativeBaseOffset(p, inbuf, ins) ==
    LET offset == resolve(p, ins.offset)
    IN  IF offset.ok /\ ~Panics(add_overflows(p.relative_base, offset.value))
        THEN Outcome([p EXCEPT !.relative_base = i64_add(@, offset.value)],
                     inbuf, <<>>, "Continue")
        ELSE Outcome(p, inbuf, <<>>, "Panic")

\* The match of execute on the instruction, the instruction pointer advanced.
execute_match(q, inbuf, instruction) ==
    CASE instruction.name = "Add"         -> ExecAdd(q, inbuf, instruction)
      [] instruction.name = "Mul"         -> ExecMul(q, inbuf, instruction)
      [] instruction.name = "Input"       -> ExecInput(q, inbuf, instruction)
      [] instruction.name = "Output"      -> ExecOutput(q, inbuf, instruction)
      [] instruction.name = "JumpIfTrue"  -> ExecJumpIfTrue(q, inbuf, instruction)
      [] instruction.name = "JumpIfFalse" -> ExecJumpIfFalse(q, inbuf, instruction)
      [] instruction.name = "LessThan"    -> ExecLessThan(q, inbuf, instruction)
      [] instruction.name = "Equals"      -> ExecEquals(q, inbuf, instruction)
      [] instruction.name = "RelativeBaseOffset" ->
             ExecRelativeBaseOffset(q, inbuf, instruction)
      [] instruction.name = "Exit"        -> Outcome(q, inbuf, <<>>, "Complete")

\* A next_instruction that steps over a word it cannot decode.
next_instruction_skips(p, inbuf, instruction) ==
    IF instruction.name = "Panic"
    THEN IF instruction.why = "decode"
         THEN Outcome([p EXCEPT !.instruction_pointer = @ + 1], inbuf, <<>>, "Continue")
         ELSE Outcome(p, inbuf, <<>>, "Panic")
    ELSE execute_match([p EXCEPT !.instruction_pointer = @ + Instruction_size(instruction)],
                       inbuf, instruction)

\* Process::next_instruction: the unwrap panics, or the pointer advances.
next_instruction(p, inbuf, instruction) ==
    IF instruction.name = "Panic"
    THEN Outcome(p, inbuf, <<>>, "Panic")
    ELSE execute_match([p EXCEPT !.instruction_pointer = @ + Instruction_size(instruction)],
                       inbuf, instruction)

\* let instruction = self.next_instruction(); match instruction { .. }
execute_iteration(v, p, inbuf) ==
    CHOOSE outcome \in
        {next_instruction(p, inbuf, instruction) :
            instruction \in {Instruction_parse(v, p.memory, p.instruction_pointer)}} :
        TRUE

(***************************************************************************)
(* Process::new.                                                           *)
(***************************************************************************)
\* A new that allocates the words of the program and no more.
Process_new_exact(v, data) ==
    [memory |-> Memory(Len(data), data),
     instruction_pointer |-> 0,
     relative_base |-> Val(0)]

Process_new(v, data) ==
    [memory |-> Memory(IF v = "d21" THEN MEMORY_SIZE ELSE Len(data), data),
     instruction_pointer |-> 0,
     relative_base |-> Val(0)]

Proc(i) == [memory |-> memory[i],
            instruction_pointer |-> instruction_pointer[i],
            relative_base |-> relative_base[i]]

Procs == DOMAIN state

Variants == {"d7", "d21"}

Profiles == {"debug", "release"}

(***************************************************************************)
(* Programs.  The first two are the fixtures of the tests of process.rs.   *)
(***************************************************************************)
JumpPosition == <<3, 12, 6, 12, 15, 1, 13, 14, 13, 4, 13, 99, -1, 0, 1, 9>>

JumpImmediate == <<3, 3, 1105, -1, 9, 1101, 0, 0, 12, 4, 12, 99, 1>>

\* Reads a value and writes it back, forever.
Echo == <<3, 7, 4, 7, 1105, 1, 0, 0>>

\* Counts in cell 11 before it reads into cell 12, then writes both.
CountThenRead == <<1001, 11, 1, 11, 3, 12, 4, 11, 4, 12, 99, 0, 0>>

\* Reads and writes through the relative base (a d21 program).
RelativeEcho == <<109, 7, 203, 0, 204, 0, 99, 0>>

\* Writes a cell beyond the program.
OutputBeyond == <<4, 100, 104, 5, 99>>

\* Stores a Halt in the last cell of the d21 memory and jumps to it.
LastCellHalt == <<1101, 99, 0, MEMORY_SIZE - 1, 1105, 1, MEMORY_SIZE - 1>>

\* After the programs above: programs whose last instruction ends in the
\* last cell of the d7 memory (a Halt, an Add, a jump that is not taken, an
\* Input, an Output), LastCellHalt, and programs that store an Output and a
\* jump that is not taken in the last cells of the d21 memory.
Library == <<JumpPosition, JumpImmediate, Echo, CountThenRead, RelativeEcho,
             OutputBeyond,
             <<104, 5, 99>>,
             <<1101, 1, 1, 0>>,
             <<1105, 0, 9>>,
             <<104, 5, 3, 0>>,
             <<1105, 1, 3, 104, 5>>,
             LastCellHalt,
             <<1101, 104, 0, MEMORY_SIZE - 2, 1105, 1, MEMORY_SIZE - 2>>,
             <<1101, 1106, 0, MEMORY_SIZE - 3, 1101, 1, 0, MEMORY_SIZE - 2,
               1105, 1, MEMORY_SIZE - 3>>>>

InputValues == {-1, 0, 5}

(***************************************************************************)
(* A caller of a single process, as in the tests of process.rs: it puts    *)
(* values on the input channel, calls execute and gets from the output     *)
(* channel.  Channel 1 is the input and channel 2 the output.              *)
(***************************************************************************)
NoSched ==
    /\ processes = <<>>
    /\ iter = 0
    /\ remaining_processes = <<>>
    /\ rtc = "none"
    /\ signal = <<>>
    /\ sweep = <<>>
    /\ called = <<>>

NoChannelTest ==
    /\ puts = <<>>
    /\ gets = <<>>
    /\ last_get = <<>>

\* No function is called on its own.
NoCall == call = <<>>

\* No Router has been constructed.
NoNet ==
    /\ interfaces = <<>>
    /\ nat = <<>>
    /\ last_op = <<>>
    /\ arrived = <<>>
    /\ forwarded = <<>>
    /\ since_forward = 0
    /\ started = 0
    /\ last_read = <<>>

\* Process::new for each program of programs, in variant v.
Created(v, programs) ==
    /\ variant = v
    /\ program = programs
    /\ memory = [i \in DOMAIN programs |-> Process_new(v, programs[i]).memory]
    /\ instruction_pointer =
           [i \in DOMAIN programs |-> Process_new(v, programs[i]).instruction_pointer]
    /\ relative_base =
           [i \in DOMAIN programs |-> Process_new(v, programs[i]).relative_base]
    /\ state = [i \in DOMAIN programs |-> "New"]
    /\ first = [i \in DOMAIN programs |-> ""]
    /\ blocks = [i \in DOMAIN programs |-> 0]
    /\ panic = ""

\* The same in a run that keeps its values as integers.
NewProcesses(v, programs) ==
    /\ wide = FALSE
    /\ profile = "debug"
    /\ Created(v, programs)

Init ==
    /\ \E v \in Variants, k \in 1..Len(Library) : NewProcesses(v, <<Library[k]>>)
    /\ input = <<1>>
    /\ output = <<2>>
    /\ channels = <<<<>>, <<>>>>
    /\ NoSched
    /\ NoChannelTest
    /\ NoNet
    /\ NoCall

\* channel.put(value) by the caller.
Put(c, value) ==
    /\ panic = ""
    /\ \A i \in Procs : state[i] # "Running"
    /\ Len(channels[c]) < MaxQueue
    /\ channels' = [channels EXCEPT ![c] = Channel_put(@, value)]
    /\ UNCHANGED <<vmvars, schedvars, netvars, call, chanvars>>

\* channel.get() by the caller.
Get(c) ==
    /\ panic = ""
    /\ \A i \in Procs : state[i] # "Running"
    /\ LET got == Channel_get(channels[c])
       IN  channels' = [channels EXCEPT ![c] = got.buffer]
    /\ UNCHANGED <<vmvars, schedvars, netvars, call, chanvars>>

\* An execute that starts a Complete process again from its first word.
Enter_restarts(i) ==
    /\ state' = [state EXCEPT ![i] = "Running"]
    /\ first' = [first EXCEPT ![i] = state[i]]
    /\ instruction_pointer' =
           [instruction_pointer EXCEPT ![i] = IF state[i] = "Complete" THEN 0 ELSE @]
    /\ UNCHANGED <<variant, wide, profile, program, memory, relative_base,
                   input, output, blocks, panic, channels>>

\* Control enters process.execute().
Enter(i) ==
    /\ state' = [state EXCEPT ![i] = "Running"]
    /\ first' = [first EXCEPT ![i] = state[i]]
    /\ UNCHANGED <<variant, wide, profile, program, memory, instruction_pointer,
                   relative_base,
                   input, output, blocks, panic, channels>>

\* The call of process.execute() by the caller.
Call(i) ==
    /\ panic = ""
    /\ \A j \in Procs : state[j] # "Running"
    /\ Enter(i)
    /\ UNCHANGED <<schedvars, netvars, call, chanvars>>

\* The effect of one iteration with outcome o on process i.
Commit(i, o) ==
    /\ memory' = [memory EXCEPT ![i] = o.proc.memory]
    /\ instruction_pointer' =
           [instruction_pointer EXCEPT ![i] = o.proc.instruction_pointer]
    /\ relative_base' = [relative_base EXCEPT ![i] = o.proc.relative_base]
    /\ channels' =
           IF o.put # <<>>
           THEN [channels EXCEPT ![output[i]] = Channel_put(@, o.put[1])]
           ELSE [channels EXCEPT ![input[i]] = o.input]
    /\ state' = [state EXCEPT ![i] =
                     IF o.result \in {"Blocked", "Complete"} THEN o.result ELSE @]
    /\ blocks' = [blocks EXCEPT ![i] =
                      IF o.result = "Blocked" /\ @ < 2 THEN @ + 1 ELSE @]
    /\ panic' = IF o.result = "Panic" THEN "panic" ELSE panic

\* One iteration of the loop of process.execute().
Step(i) ==
    /\ panic = ""
    /\ state[i] = "Running"
    /\ \E o \in {execute_iteration(variant, Proc(i), channels[input[i]])} :
          Commit(i, o)
    /\ first' = [first EXCEPT ![i] = ""]
    /\ UNCHANGED <<variant, wide, profile, program, input, output, schedvars, netvars, call, chanvars>>

\* The caller lets the process run on while the output channel holds at
\* most MaxQueue values.
Next ==
    \/ \E value \in InputValues : Put(1, value)
    \/ Get(2)
    \/ Call(1)
    \/ Step(1) /\ Len(channels'[2]) <= MaxQueue

Spec == Init /\ [][Next]_vars

(***************************************************************************)
(* A Channel on its own, put to and got from in any order (channel 1).     *)
(***************************************************************************)
NoProcesses ==
    /\ variant = "d7"
    /\ wide = FALSE
    /\ profile = "debug"
    /\ program = <<>>
    /\ memory = <<>>
    /\ instruction_pointer = <<>>
    /\ relative_base = <<>>
    /\ input = <<>>
    /\ output = <<>>
    /\ state = <<>>
    /\ first = <<>>
    /\ blocks = <<>>
    /\ panic = ""

ChanInit ==
    /\ NoProcesses
    /\ NoSched
    /\ channels = <<<<>>>>
    /\ puts = <<>>
    /\ gets = <<>>
    /\ last_get = <<>>
    /\ NoNet
    /\ NoCall

ChanPut(value) ==
    /\ Len(puts) < MaxPuts
    /\ channels' = [channels EXCEPT ![1] = Channel_put(@, value)]
    /\ puts' = Append(puts, value)
    /\ UNCHANGED <<vmvars, schedvars, netvars, call, gets, last_get>>

GetResult(got) ==
    /\ channels' = [channels EXCEPT ![1] = got.buffer]
    /\ gets' = IF got.some THEN Append(gets, got.value) ELSE gets
    /\ last_get' = IF got.some THEN <<Some(got.value)>> ELSE <<None>>

ChanGet ==
    /\ GetResult(Channel_get(channels[1]))
    /\ UNCHANGED <<vmvars, schedvars, netvars, call, puts>>

ChanNext ==
    \/ \E value \in InputValues : ChanPut(value)
    \/ ChanGet

ChanSpec == ChanInit /\ [][ChanNext]_vars

(***************************************************************************)
(* run_to_completion over a ring of processes wired as get_output_signal   *)
(* wires them: process i reads channel i and writes the next channel.      *)
(***************************************************************************)
\* The amplifier program and phase settings of the test output_signal_1.
AmplifierProgram ==
    <<3, 26, 1001, 26, -4, 26, 3, 27, 1002, 27, 2, 27, 1, 27, 26, 27, 4, 27,
      1001, 28, -1, 28, 1005, 28, 6, 99, 0, 0, 5>>

PhaseSettings == <<9, 8, 7, 6, 5>>

ExpectedSignal == 139629729

\* A one-round amplifier: reads its setting, reads a signal, writes the
\* signal, halts.
Relay == <<3, 7, 3, 7, 4, 7, 99, 0>>

\* Reads for ever and never writes.
Sink == <<3, 5, 1105, 1, 0, 0>>

\* Flips cell 7 between 0 and 1 for ever; never reads, never halts.
Spin == <<1008, 7, 0, 7, 1105, 1, 0, 0>>

\* Not an instruction.
Crash == <<98>>

SchedPrograms == <<Relay, Sink, Spin, Crash>>

\* The phase setting given to the small programs.
SmallSetting == 5

RingOutputSelf(i, n) == i

\* channels.iter().zip(channels.iter().cycle().skip(1))
RingOutput(i, n) == (i % n) + 1

\* The processes and channels get_output_signal builds.
Ring(v, programs, settings) ==
    /\ NewProcesses(v, programs)
    /\ input = [i \in DOMAIN programs |-> i]
    /\ output = [i \in DOMAIN programs |-> RingOutput(i, Len(programs))]
    /\ channels = [c \in DOMAIN programs |->
                      IF c = 1 THEN Channel_put(Channel_put(<<>>, settings[c]), 0)
                      ELSE Channel_put(<<>>, settings[c])]

\* run_to_completion(processes.iter_mut().collect()) is about to run.
SchedStart ==
    /\ processes = [i \in DOMAIN state |-> i]
    /\ iter = 0
    /\ remaining_processes = <<>>
    /\ rtc = "while"
    /\ signal = <<>>
    /\ sweep = <<>>
    /\ called = <<>>

SchedInit ==
    /\ \/ Ring("d7", [i \in 1..Len(PhaseSettings) |-> AmplifierProgram], PhaseSettings)
       \/ \E v \in Variants, n \in 1..MaxProcs :
            \E choice \in [1..n -> 1..Len(SchedPrograms)] :
                 Ring(v, [i \in 1..n |-> SchedPrograms[choice[i]]],
                      [i \in 1..n |-> SmallSetting])
    /\ SchedStart
    /\ NoChannelTest
    /\ NoNet
    /\ NoCall

\* !processes.is_empty()
Finished_or_stalled(ps) ==
    ps = <<>> \/ \A k \in DOMAIN ps : state[ps[k]] = "Blocked"

Finished(ps) == ps = <<>>

\* The test of the while loop; a sweep begins when it passes.
RtcWhile ==
    /\ rtc = "while"
    /\ panic = ""
    /\ IF Finished(processes)
       THEN /\ rtc' = "returned"
            /\ UNCHANGED <<iter, remaining_processes, sweep, called>>
       ELSE /\ rtc' = "for"
            /\ remaining_processes' = <<>>
            /\ iter' = 1
            /\ sweep' = processes
            /\ called' = <<>>
    /\ UNCHANGED <<vmvars, channels, processes, signal, chanvars, netvars, call>>

\* The for loop takes its next process and calls execute on it, or ends
\* the sweep.
RtcFor ==
    /\ rtc = "for"
    /\ panic = ""
    /\ IF iter <= Len(processes)
       THEN /\ Enter(processes[iter])
            /\ rtc' = "exec"
            /\ called' = Append(called, processes[iter])
            /\ UNCHANGED <<processes, iter, remaining_processes>>
       ELSE /\ processes' = remaining_processes
            /\ remaining_processes' = <<>>
            /\ rtc' = "while"
            /\ iter' = 0
            /\ UNCHANGED <<vmvars, channels, called>>
    /\ UNCHANGED <<signal, sweep, chanvars, netvars, call>>

KeepAlways(result) == TRUE

KeepOnlyComplete(result) == result = "Complete"

\* process.execute() != State::Complete
Keep(result) == result # "Complete"

PushFront(remaining, process) == <<process>> \o remaining

\* remaining_processes.push(process)
Push(remaining, process) == Append(remaining, process)

\* execute has returned: the process is kept unless it is Complete.
RtcCollect ==
    /\ rtc = "exec"
    /\ panic = ""
    /\ state[processes[iter]] \in {"Blocked", "Complete"}
    /\ remaining_processes' =
           IF Keep(state[processes[iter]])
           THEN Push(remaining_processes, processes[iter])
           ELSE remaining_processes
    /\ iter' = iter + 1
    /\ rtc' = "for"
    /\ UNCHANGED <<vmvars, channels, processes, signal, sweep, called, chanvars, netvars, call>>

\* channels[0].get().unwrap() of get_output_signal.
GetOutputSignal ==
    /\ rtc = "returned"
    /\ variant = "d7"
    /\ panic = ""
    /\ signal = <<>>
    /\ LET got == Channel_get(channels[1])
       IN  /\ channels' = [channels EXCEPT ![1] = got.buffer]
           /\ signal' = IF got.some THEN <<got.value>> ELSE <<>>
           /\ panic' = IF got.some THEN "" ELSE "panic"
    /\ UNCHANGED <<variant, wide, profile, program, memory, instruction_pointer,
                   relative_base,
                   input, output, state, first, blocks, processes, iter,
                   remaining_processes, rtc, sweep, called, chanvars, netvars,
                   call>>

SchedNext ==
    \/ RtcWhile
    \/ RtcFor
    \/ \E i \in Procs : Step(i)
    \/ RtcCollect
    \/ GetOutputSignal

SchedSpec == SchedInit /\ [][SchedNext]_vars

\* The one thread of the program keeps running while it has a step to take.
FairSchedSpec == SchedSpec /\ WF_vars(SchedNext)

\* C3: the values got, followed by the values still queued, are the values
\* put, in order (so the values got are a prefix of the values put); every
\* get that returns a value returns the oldest queued one and removes it; a
\* get on an empty channel returns None and leaves the channel empty.
C3_ChannelFifo ==
    /\ [](gets \o channels[1] = puts)
    /\ [][
           /\ (gets' # gets) =>
                  (/\ channels[1] # <<>>
                   /\ gets' = Append(gets, Head(channels[1]))
                   /\ last_get' = <<Some(Head(channels[1]))>>
                   /\ channels'[1] = Tail(channels[1]))
           /\ (channels[1] = <<>> /\ puts' = puts) =>
                  (/\ channels'[1] = <<>>
                   /\ gets' = gets
                   /\ last_get' = <<None>>)
           /\ (channels[1] # <<>> /\ puts' = puts) => (gets' # gets)
         ]_vars

\* Three values were put, the first two got in order, the third got too, and
\* a get on the then empty channel returned None.
C3_Witness ==
    /\ Len(puts) = 3
    /\ puts[1] # puts[2]
    /\ puts[2] # puts[3]
    /\ gets = puts
    /\ last_get = <<None>>

(***************************************************************************)
(* Properties of a single process.                                         *)
(***************************************************************************)
Decoded(i) == Instruction_parse(variant, memory[i], instruction_pointer[i])

AtInput(i) == Decoded(i).name = "Input"

InputEmpty(i) == channels[input[i]] = <<>>

\* C1: an Input that finds its source empty returns Blocked with the
\* instruction pointer at that Input; nothing moves the pointer of a Blocked
\* process, so a further execute with the source still empty blocks there
\* again; once a value is there, the first instruction the next execute runs
\* is that Input, which stores the value, and no earlier instruction runs
\* again (CountThenRead counts once however often it blocked).
C1_BlockedResume ==
    /\ [][\A i \in Procs :
            /\ (state[i] = "Running" /\ AtInput(i) /\ InputEmpty(i))
                   => /\ state'[i] = "Blocked"
                      /\ instruction_pointer'[i] = instruction_pointer[i]
            /\ state[i] = "Blocked"
                   => /\ AtInput(i)
                      /\ instruction_pointer'[i] = instruction_pointer[i]
                      /\ memory'[i] = memory[i]
            /\ (state[i] = "Running" /\ first[i] = "Blocked"
                    /\ ~InputEmpty(i) /\ panic' = "")
                   => /\ AtInput(i)
                      /\ Load(memory'[i], resolve_address(Proc(i), Decoded(i).output))
                            = Head(channels[input[i]])
                      /\ channels'[input[i]] = Tail(channels[input[i]])
                      /\ instruction_pointer'[i] = instruction_pointer[i] + 2
         ]_vars
    /\ [](\A i \in Procs :
            (program[i] = CountThenRead /\ state[i] = "Complete") =>
                Load(memory[i], 11) = 1)

\* A process that blocked twice, then read 5 and completed.
C1_Witness ==
    /\ program[1] = CountThenRead
    /\ blocks[1] = 2
    /\ state[1] = "Complete"
    /\ Load(memory[1], 12) = 5

\* C2: when execute returns Blocked, memory, relative base and every channel
\* are as they were before the blocking Input was decoded, and the
\* instruction pointer is back at that Input.
C2_BlockedFrame ==
    [][\A i \in Procs :
          (state[i] = "Running" /\ state'[i] = "Blocked")
             => /\ memory'[i] = memory[i]
                /\ relative_base'[i] = relative_base[i]
                /\ channels' = channels
                /\ instruction_pointer'[i] = instruction_pointer[i]
                /\ AtInput(i)'
      ]_vars

\* A process blocked after it had already read and written.
C2_Witness ==
    /\ state[1] = "Blocked"
    /\ channels[2] # <<>>
    /\ instruction_pointer[1] = 0
    /\ memory[1] # Process_new(variant, program[1]).memory

\* C4: an Output whose operand can be read appends exactly that value to the
\* tail of the output channel, whatever the channel already holds, does not
\* end the call, and execution goes on with the following instruction.
C4_OutputNeverBlocks ==
    [][\A i \in Procs :
          (state[i] = "Running" /\ Decoded(i).name = "Output"
              /\ resolve(Proc(i), Decoded(i).input).ok)
             => /\ channels'[output[i]] =
                      Append(channels[output[i]], resolve(Proc(i), Decoded(i).input).value)
                /\ state'[i] = "Running"
                /\ panic' = ""
                /\ instruction_pointer'[i] = instruction_pointer[i] + 2
                /\ memory'[i] = memory[i]
      ]_vars

\* An Output has just appended to a channel that already held values.
C4_Witness ==
    /\ program[1] = Echo
    /\ state[1] = "Running"
    /\ instruction_pointer[1] = 4
    /\ Len(channels[2]) >= 2

(***************************************************************************)
(* The branch tests of process.rs (jump_position_zero and the like), run on *)
(* any input value: the value is put on the input channel, execute is       *)
(* called once, and the output channel is got from once.                    *)
(***************************************************************************)
TestPrograms == <<JumpPosition, JumpImmediate>>

TestValues == (-MaxValue)..MaxValue

TestInit ==
    /\ \E v \in Variants, k \in 1..Len(TestPrograms) :
          NewProcesses(v, <<TestPrograms[k]>>)
    /\ input = <<1>>
    /\ output = <<2>>
    /\ \E value \in TestValues :
          /\ channels = <<Channel_put(<<>>, value), <<>>>>
          /\ puts = <<value>>
    /\ gets = <<>>
    /\ last_get = <<>>
    /\ NoSched
    /\ NoNet
    /\ NoCall

\* Process::new(..).execute()
TestExecute ==
    /\ state[1] = "New"
    /\ Call(1)

\* output.get() once execute has returned.
TestGet ==
    /\ panic = ""
    /\ state[1] \in {"Blocked", "Complete"}
    /\ last_get = <<>>
    /\ LET got == Channel_get(channels[2])
       IN  /\ channels' = [channels EXCEPT ![2] = got.buffer]
           /\ last_get' = IF got.some THEN <<Some(got.value)>> ELSE <<None>>
    /\ UNCHANGED <<vmvars, schedvars, netvars, call, puts, gets>>

TestNext ==
    \/ TestExecute
    \/ Step(1)
    \/ TestGet

\* The test runs on while it has a step to take.
TestSpec == TestInit /\ [][TestNext]_vars /\ WF_vars(TestNext)

(***************************************************************************)
(* The tests of process.rs that give no input (test_copy and the like):    *)
(* execute is called once on a fresh process, then the output channel is   *)
(* got from, once for every word of the program at most.                   *)
(***************************************************************************)
Quine == <<109, 1, 204, -1, 1001, 100, 1, 100, 1008, 100, 16, 101, 1006, 101, 0, 99>>

RunPrograms == <<Quine>>

\* The words of a program as a wide run keeps them.
Encode(data) == [k \in DOMAIN data |-> FromInt(data[k])]

\* 1125899906842624 and 1219070632396864
BigValue == Decimal(<<1, 1, 2, 5, 8, 9, 9, 9, 0, 6, 8, 4, 2, 6, 2, 4>>)

BigProduct == Decimal(<<1, 2, 1, 9, 0, 7, 0, 6, 3, 2, 3, 9, 6, 8, 6, 4>>)

\* [104, 1125899906842624, 99]
BigNumber == <<FromInt(104), BigValue, FromInt(99)>>

BigMultiply == Encode(<<1102, 34915192, 34915192, 7, 4, 7, 99, 0>>)

WidePrograms == <<Encode(Quine), BigNumber, BigMultiply>>

\* Process::new in a run that keeps its values as bytes.
WideProcesses(v, programs) ==
    /\ wide = TRUE
    /\ profile \in Profiles
    /\ Created(v, programs)

RunInit ==
    /\ \/ \E v \in Variants, k \in 1..Len(RunPrograms) :
             NewProcesses(v, <<RunPrograms[k]>>)
       \/ \E v \in Variants, k \in 1..Len(WidePrograms) :
             WideProcesses(v, <<WidePrograms[k]>>)
    /\ input = <<1>>
    /\ output = <<2>>
    /\ channels = <<<<>>, <<>>>>
    /\ NoChannelTest
    /\ NoSched
    /\ NoNet
    /\ NoCall

\* Process::new(..).execute()
RunExecute ==
    /\ state[1] = "New"
    /\ Call(1)

\* output.get() in the loop over program.data.
RunGet ==
    /\ panic = ""
    /\ state[1] \in {"Blocked", "Complete"}
    /\ Len(gets) < Len(program[1])
    /\ last_get # <<None>>
    /\ LET got == Channel_get(channels[2])
       IN  /\ channels' = [channels EXCEPT ![2] = got.buffer]
           /\ gets' = IF got.some THEN Append(gets, got.value) ELSE gets
           /\ last_get' = IF got.some THEN <<Some(got.value)>> ELSE <<None>>
    /\ UNCHANGED <<vmvars, schedvars, netvars, call, puts>>

RunNext ==
    \/ RunExecute
    \/ Step(1)
    \/ RunGet

\* The test runs on while it has a step to take.
RunSpec == RunInit /\ [][RunNext]_vars /\ WF_vars(RunNext)

(***************************************************************************)
(* The network of src/23/src/main.rs: a Router with its Nics and its Nat.  *)
(* Each Nic is the Input and the Output of one Process; the processes are   *)
(* represented by the calls they make, get() for an Input instruction and   *)
(* put(value) for an Output instruction, in any order, and the poll          *)
(* callback of run_to_completion may run between any two of them.           *)
(* interfaces is indexed from 0 like the Vec of the source.                 *)
(***************************************************************************)
\* The number of computers of the run (50 in the source).
NumNics == 2

\* No packet is sent to a Nic whose input_buffer holds MaxInput values.
MaxInput == 3

\* The processes write MaxPackets packets at most.
MaxPackets == 2

NAT_ADDRESS == 255

Addresses == 0..(NumNics - 1)

\* The packets the processes write, as (destination, x, y): one to every
\* Nic, one to the first address that is no Nic's, one to a negative
\* address, and two to the Nat.
Packets ==
    {<<d, 1, 2>> : d \in Addresses \cup {NumNics, -1}}
        \cup {<<NAT_ADDRESS, 1, 2>>, <<NAT_ADDRESS, 3, 2>>}

Nat_new == [buffer |-> None, last_sent |-> None]

\* A receive that keeps the packet it holds.
Nat_receive_keeps(n, x, y) ==
    IF n.buffer = None THEN [n EXCEPT !.buffer = Some(<<x, y>>)] ELSE n

Nat_receive(n, x, y) == [n EXCEPT !.buffer = Some(<<x, y>>)]

\* A Nic that is idle from the start.
Nic_new_idle(index) ==
    [index |-> index,
     got_index |-> FALSE,
     got_input |-> FALSE,
     input_buffer |-> <<>>,
     output_buffer |-> <<>>]

Nic_new(index) ==
    [index |-> index,
     got_index |-> FALSE,
     got_input |-> TRUE,
     input_buffer |-> <<>>,
     output_buffer |-> <<>>]

\* A Nic that starts idle.
Nic_is_idle_ignores_poll(nic) ==
    /\ nic.input_buffer = <<>>
    /\ nic.output_buffer = <<>>

Nic_is_idle(nic) ==
    /\ nic.input_buffer = <<>>
    /\ nic.output_buffer = <<>>
    /\ ~nic.got_input

\* A receive that queues the packet before the values that wait.
Nic_receive_front(nic, x, y) ==
    [nic EXCEPT !.input_buffer = <<x, y>> \o @]

\* A receive that queues nothing.
Nic_receive_lost(nic, x, y) == nic

\* A receive that queues y before x.
Nic_receive_swapped(nic, x, y) ==
    [nic EXCEPT !.input_buffer = Append(Append(@, y), x)]

Nic_receive(nic, x, y) ==
    [nic EXCEPT !.input_buffer = Append(Append(@, x), y)]

\* get() of a Nic: the Nic after the call and the Option returned.
\* A get that hands out the address whenever the queue is empty.
Nic_get_address_again(nic) ==
    IF ~nic.got_index \/ nic.input_buffer = <<>>
    THEN [nic |-> [nic EXCEPT !.got_index = TRUE], value |-> Some(nic.index)]
    ELSE [nic |-> [nic EXCEPT !.got_input = TRUE,
                              !.input_buffer = Tail(@)],
          value |-> Some(Head(nic.input_buffer))]

Nic_get(nic) ==
    IF ~nic.got_index
    THEN [nic |-> [nic EXCEPT !.got_index = TRUE], value |-> Some(nic.index)]
    ELSE IF nic.input_buffer # <<>>
    THEN [nic |-> [nic EXCEPT !.got_input = TRUE,
                              !.input_buffer = Tail(@)],
          value |-> Some(Head(nic.input_buffer))]
    ELSE [nic |-> [nic EXCEPT !.got_input = FALSE], value |-> Some(-1)]

\* Router::send: the Nics and the Nat after the call, or the panic of the
\* index into interfaces.  destination is a usize: a negative i64 is cast
\* to a value far above 255 and above every address.
\* A send that ignores a packet for an address that is no Nic's.
Router_send_ignores(ifs, n, destination, x, y) ==
    IF destination = NAT_ADDRESS
    THEN [interfaces |-> ifs, nat |-> Nat_receive(n, x, y), panic |-> ""]
    ELSE IF destination \in DOMAIN ifs
    THEN [interfaces |-> [ifs EXCEPT ![destination] = Nic_receive(@, x, y)],
          nat |-> n, panic |-> ""]
    ELSE [interfaces |-> ifs, nat |-> n, panic |-> ""]

\* A send that drops the packets for address 255.
Router_send_drops(ifs, n, destination, x, y) ==
    IF destination = NAT_ADDRESS
    THEN [interfaces |-> ifs, nat |-> n, panic |-> ""]
    ELSE IF destination \in DOMAIN ifs
    THEN [interfaces |-> [ifs EXCEPT ![destination] = Nic_receive(@, x, y)],
          nat |-> n, panic |-> ""]
    ELSE [interfaces |-> ifs, nat |-> n, panic |-> "index out of bounds"]

Router_send(ifs, n, destination, x, y) ==
    IF destination = NAT_ADDRESS
    THEN [interfaces |-> ifs, nat |-> Nat_receive(n, x, y), panic |-> ""]
    ELSE IF destination \in DOMAIN ifs
    THEN [interfaces |-> [ifs EXCEPT ![destination] = Nic_receive(@, x, y)],
          nat |-> n, panic |-> ""]
    ELSE [interfaces |-> ifs, nat |-> n, panic |-> "index out of bounds"]

Router_network_idle(ifs) == \A a \in DOMAIN ifs : Nic_is_idle(ifs[a])

\* put(value) of the Nic of address a: the network after the call, the
\* packets passed to Router::send and the panic, if any.
\* A put that dispatches after two values.
Nic_put_pairs(ifs, n, a, value) ==
    LET buffer == Append(ifs[a].output_buffer, value)
        pushed == [ifs EXCEPT ![a].output_buffer = buffer]
    IN  IF Len(buffer) = 2
        THEN LET r == Router_send(pushed, n, buffer[1], buffer[2], buffer[2])
             IN  [interfaces |-> IF r.panic = ""
                                 THEN [r.interfaces EXCEPT ![a].output_buffer = <<>>]
                                 ELSE r.interfaces,
                  nat |-> r.nat,
                  sent |-> <<buffer>>,
                  panic |-> r.panic]
        ELSE [interfaces |-> pushed, nat |-> n, sent |-> <<>>, panic |-> ""]

Nic_put(ifs, n, a, value) ==
    LET buffer == Append(ifs[a].output_buffer, value)
        pushed == [ifs EXCEPT ![a].output_buffer = buffer]
    IN  IF Len(buffer) = 3
        THEN LET r == Router_send(pushed, n, buffer[1], buffer[2], buffer[3])
             IN  [interfaces |-> IF r.panic = ""
                                 THEN [r.interfaces EXCEPT ![a].output_buffer = <<>>]
                                 ELSE r.interfaces,
                  nat |-> r.nat,
                  sent |-> <<buffer>>,
                  panic |-> r.panic]
        ELSE [interfaces |-> pushed, nat |-> n, sent |-> <<>>, panic |-> ""]

\* Nat::poll: the network after the call, the packets passed to
\* Router::send and whether "Duplicate Packet" was printed.
\* A poll that gives away the packet it forwards.
Nat_poll_consumes(ifs, n) ==
    IF Router_network_idle(ifs) /\ n.buffer # None
    THEN LET packet == n.buffer[1]
             r == Router_send(ifs, n, 0, packet[1], packet[2])
         IN  [interfaces |-> r.interfaces,
              nat |-> [r.nat EXCEPT !.last_sent = Some(packet), !.buffer = None],
              sent |-> <<<<0, packet[1], packet[2]>>>>,
              duplicate |-> n.last_sent = Some(packet),
              panic |-> r.panic]
    ELSE [interfaces |-> ifs, nat |-> n, sent |-> <<>>, duplicate |-> FALSE,
          panic |-> ""]

\* A poll that forwards whenever a packet is buffered.
Nat_poll_eager(ifs, n) ==
    IF n.buffer # None
    THEN LET packet == n.buffer[1]
             r == Router_send(ifs, n, 0, packet[1], packet[2])
         IN  [interfaces |-> r.interfaces,
              nat |-> [r.nat EXCEPT !.last_sent = Some(packet)],
              sent |-> <<<<0, packet[1], packet[2]>>>>,
              duplicate |-> n.last_sent = Some(packet),
              panic |-> r.panic]
    ELSE [interfaces |-> ifs, nat |-> n, sent |-> <<>>, duplicate |-> FALSE,
          panic |-> ""]

\* A poll that does not record what it sent.
Nat_poll_forgets(ifs, n) ==
    IF Router_network_idle(ifs) /\ n.buffer # None
    THEN LET packet == n.buffer[1]
             r == Router_send(ifs, n, 0, packet[1], packet[2])
         IN  [interfaces |-> r.interfaces,
              nat |-> r.nat,
              sent |-> <<<<0, packet[1], packet[2]>>>>,
              duplicate |-> n.last_sent = Some(packet),
              panic |-> r.panic]
    ELSE [interfaces |-> ifs, nat |-> n, sent |-> <<>>, duplicate |-> FALSE,
          panic |-> ""]

Nat_poll(ifs, n) ==
    IF Router_network_idle(ifs) /\ n.buffer # None
    THEN LET packet == n.buffer[1]
             r == Router_send(ifs, n, 0, packet[1], packet[2])
         IN  [interfaces |-> r.interfaces,
              nat |-> [r.nat EXCEPT !.last_sent = Some(packet)],
              sent |-> <<<<0, packet[1], packet[2]>>>>,
              duplicate |-> n.last_sent = Some(packet),
              panic |-> r.panic]
    ELSE [interfaces |-> ifs, nat |-> n, sent |-> <<>>, duplicate |-> FALSE,
          panic |-> ""]

Router_poll(ifs, n) == Nat_poll(ifs, n)

machinevars == <<variant, wide, profile, program, memory, instruction_pointer,
                 relative_base, input, output, state, first, blocks>>

\* run(): the Router, its Nat and one Nic per computer.
NetInit ==
    /\ NoProcesses
    /\ NoSched
    /\ NoChannelTest
    /\ channels = <<>>
    /\ interfaces = [a \in Addresses |-> Nic_new(a)]
    /\ nat = Nat_new
    /\ last_op = [op |-> "new", nic |-> -1, value |-> None, sent |-> <<>>,
                  duplicate |-> FALSE]
    /\ arrived = <<>>
    /\ forwarded = None
    /\ since_forward = 0
    /\ started = 0
    /\ last_read = [a \in Addresses |-> "none"]
    /\ NoCall

\* An Input instruction of the process of Nic a.
NicGet(a) ==
    /\ panic = ""
    /\ \E r \in {Nic_get(interfaces[a])} :
          /\ interfaces' = [interfaces EXCEPT ![a] = r.nic]
          /\ last_op' = [op |-> "get", nic |-> a, value |-> r.value,
                         sent |-> <<>>, duplicate |-> FALSE]
    /\ since_forward' = IF a = 0 /\ since_forward < 3
                        THEN since_forward + 1
                        ELSE since_forward
    /\ last_read' = [last_read EXCEPT ![a] =
                         IF @ = "none" THEN "address"
                         ELSE IF interfaces[a].input_buffer # <<>> THEN "value"
                         ELSE "empty"]
    /\ UNCHANGED <<vmvars, channels, schedvars, chanvars, nat, arrived,
                   forwarded, started, call>>

\* An Output instruction of the process of Nic a.
NicPut(a, value) ==
    /\ panic = ""
    /\ \E r \in {Nic_put(interfaces, nat, a, value)} :
          /\ interfaces' = r.interfaces
          /\ nat' = r.nat
          /\ panic' = r.panic
          /\ last_op' = [op |-> "put", nic |-> a, value |-> Some(value),
                         sent |-> r.sent, duplicate |-> FALSE]
          /\ arrived' = IF r.sent # <<>> /\ r.sent[1][1] = NAT_ADDRESS
                        THEN Append(arrived, <<r.sent[1][2], r.sent[1][3]>>)
                        ELSE arrived
    /\ started' = IF interfaces[a].output_buffer = <<>>
                  THEN started + 1
                  ELSE started
    /\ UNCHANGED <<machinevars, channels, schedvars, chanvars, forwarded,
                   since_forward, last_read, call>>

\* The callback of run_to_completion: router.poll().
Poll ==
    /\ panic = ""
    /\ \E r \in {Router_poll(interfaces, nat)} :
          /\ interfaces' = r.interfaces
          /\ nat' = r.nat
          /\ panic' = r.panic
          /\ last_op' = [op |-> "poll", nic |-> -1, value |-> None,
                         sent |-> r.sent, duplicate |-> r.duplicate]
          /\ forwarded' = IF r.sent # <<>>
                          THEN Some(<<r.sent[1][2], r.sent[1][3]>>)
                          ELSE forwarded
          /\ since_forward' = IF r.sent # <<>> THEN 0 ELSE since_forward
    /\ UNCHANGED <<machinevars, channels, schedvars, chanvars, arrived,
                   started, last_read, call>>

\* The values the process of Nic a may write next: those that go on with
\* one of Packets.
PutValues(a) ==
    LET buffer == interfaces[a].output_buffer
    IN  {p[Len(buffer) + 1] :
            p \in {q \in Packets : /\ Len(buffer) < Len(q)
                                   /\ SubSeq(q, 1, Len(buffer)) = buffer}}

InputsBounded ==
    /\ \A a \in Addresses : Len(interfaces'[a].input_buffer) <= MaxInput
    /\ started' <= MaxPackets

NetNext ==
    \/ \E a \in Addresses : NicGet(a)
    \/ \E a \in Addresses : \E value \in PutValues(a) :
          NicPut(a, value) /\ InputsBounded
    \/ Poll

NetSpec == NetInit /\ [][NetNext]_vars

(***************************************************************************)
(* Claims about run_to_completion.                                         *)
(***************************************************************************)
ProcIds == 1..Len(PhaseSettings)

Range(s) == {s[k] : k \in DOMAIN s}

\* The processes run_to_completion will still call execute on: those of the
\* sweep not yet taken by the for loop and those kept for the next sweep.
Pending ==
    IF rtc = "while" THEN Range(processes)
    ELSE IF rtc = "for"
         THEN Range(remaining_processes) \cup {processes[k] : k \in iter..Len(processes)}
    ELSE IF rtc = "exec"
         THEN Range(remaining_processes)
                 \cup {processes[k] : k \in (iter + 1)..Len(processes)}
    ELSE {}

AllComplete == \A i \in Procs : state[i] = "Complete"

\* C5: run_to_completion returns only when every process has returned
\* Complete; a process that has returned Complete is not among the processes
\* still to be called, stays Complete, and execute is never entered on it
\* again.
C5_ReturnsWhenAllComplete ==
    /\ [](rtc = "returned" => AllComplete)
    /\ [](\A i \in Procs : state[i] = "Complete" => i \notin Pending)
    /\ [][\A i \in Procs : state[i] = "Complete" => state'[i] = "Complete"]_vars

\* The ring of amplifiers has returned: every process was blocked more than
\* once on the way and all are Complete.
C5_Witness ==
    /\ rtc = "returned"
    /\ Len(state) = Len(PhaseSettings)
    /\ \A i \in Procs : blocks[i] = 2
    /\ AllComplete

StillBlocked(i) == state[i] = "Blocked"

NoDuplicates(s) == \A j, k \in DOMAIN s : s[j] = s[k] => j = k

\* C6: within a sweep execute is called on the processes active at its start
\* in vector order, once each: the calls made so far are a prefix of the
\* sweep; when the sweep ends every one of them has been called, and the
\* next sweep is over those that returned Blocked, in the same relative
\* order.
C6_SweepOrder ==
    /\ [](/\ NoDuplicates(sweep)
          /\ Len(called) <= Len(sweep)
          /\ called = SubSeq(sweep, 1, Len(called))
          /\ rtc = "for" => (Len(called) = iter - 1
                                /\ remaining_processes = SelectSeq(called, StillBlocked))
          /\ rtc = "exec" => (Len(called) = iter /\ processes = sweep))
    /\ [][(rtc = "for" /\ rtc' = "while") =>
              (/\ called = sweep
               /\ processes' = SelectSeq(sweep, StillBlocked))]_vars

\* A sweep of the amplifier ring, not its first, has ended: all five were
\* called in order, all returned Blocked and are kept in that order.
C6_Witness ==
    /\ rtc = "while"
    /\ sweep = <<1, 2, 3, 4, 5>>
    /\ called = sweep
    /\ processes = sweep
    /\ \A i \in Procs : blocks[i] = 2

Running(i) == i \in Procs /\ state[i] = "Running"

\* Process i has been created or has returned Blocked, and run_to_completion
\* has not returned: it awaits its next execute call.
Waiting(i) == i \in Procs /\ state[i] \in {"New", "Blocked"} /\ rtc # "returned"

NoneRunning == \A i \in Procs : state[i] # "Running"

\* C7 as stated: whatever the programs, every process that awaits its next
\* execute call is eventually given it (unless the run has panicked).
C7_Original ==
    \A i \in ProcIds : [](Waiting(i) => <>(Running(i) \/ panic # ""))

\* C7, amended: provided every execute call the scheduler makes returns (time
\* and again no process is inside execute), every process that awaits its
\* next execute call is eventually given it.  A process whose execute never
\* reaches Halt or an Input on an empty channel does keep the others waiting.
C7_RoundRobin ==
    \A i \in ProcIds : ([]<>NoneRunning) => [](Waiting(i) => <>Running(i))

\* In the amplifier ring the last process, blocked twice before, is called
\* again after the four before it have returned, a signal waiting on its
\* input.
C7_Witness ==
    /\ Len(state) = Len(PhaseSettings)
    /\ \A i \in Procs : blocks[i] = 2
    /\ \A i \in 1..4 : state[i] = "Blocked"
    /\ state[5] = "Running"
    /\ first[5] = "Blocked"
    /\ channels[5] # <<>>

\* The processes run_to_completion has not finished with.
Active ==
    Pending \cup (IF rtc = "exec" /\ state[processes[iter]] # "Complete"
                  THEN {processes[iter]} ELSE {})

\* Every active process has returned Blocked (or is being retried and has
\* not run an instruction yet) and its input channel is empty.
Deadlocked ==
    /\ rtc \in {"while", "for", "exec"}
    /\ panic = ""
    /\ Active # {}
    /\ \A i \in Active :
          /\ \/ state[i] = "Blocked"
             \/ state[i] = "Running" /\ first[i] = "Blocked"
          /\ AtInput(i)
          /\ InputEmpty(i)

\* C8: once every active process is Blocked on an empty input this stays so:
\* run_to_completion does not return, no memory, instruction pointer,
\* relative base or channel changes, and each of these processes is called
\* again and again.
C8_BlockedForever ==
    /\ [][Deadlocked =>
             (/\ Deadlocked'
              /\ rtc' # "returned"
              /\ Active' = Active
              /\ memory' = memory
              /\ instruction_pointer' = instruction_pointer
              /\ relative_base' = relative_base
              /\ channels' = channels)]_vars
    /\ \A i \in ProcIds :
          [](Deadlocked /\ i \in Active /\ state[i] = "Blocked" => <>Running(i))

\* Two processes, each blocked at least twice, none complete, and the
\* second of them being retried.
C8_Witness ==
    /\ Deadlocked
    /\ Active = {1, 2}
    /\ blocks[1] = 2
    /\ blocks[2] = 2
    /\ rtc = "exec"
    /\ state[2] = "Running"

IsAmplifierRing ==
    /\ variant = "d7"
    /\ DOMAIN program = ProcIds
    /\ \A i \in ProcIds : program[i] = AmplifierProgram

\* C9: get_output_signal returns the value at the head of channel 0 once
\* run_to_completion has returned with all processes Complete; the ring of
\* five amplifiers with phase settings 9,8,7,6,5 does get there, without a
\* panic, and the value is 139629729.
C9_RingSignal ==
    /\ [][signal' # signal =>
             (/\ rtc = "returned"
              /\ AllComplete
              /\ channels[1] # <<>>
              /\ signal' = <<Head(channels[1])>>)]_vars
    /\ [](IsAmplifierRing =>
             (/\ panic = ""
              /\ signal # <<>> => signal = <<ExpectedSignal>>))
    /\ (IsAmplifierRing =>
           <>(rtc = "returned" /\ AllComplete /\ signal = <<ExpectedSignal>>))

\* The ring has delivered the expected signal and channel 0 is drained.
C9_Witness ==
    /\ IsAmplifierRing
    /\ signal = <<ExpectedSignal>>
    /\ channels[1] = <<>>

Expected(value) == IF value = 0 THEN 0 ELSE 1

\* What the process has written so far: the value the test got, if it has,
\* and what the output channel holds.
Written == IF last_get = <<>> THEN channels[2] ELSE last_get[1] \o channels[2]

\* C10: the position-mode and the immediate-mode branch program, given the
\* input value v, never panic and never block; while they run they have
\* written at most one value; they do return Complete, having written one
\* value, 0 if v = 0 and 1 otherwise, which is what the test then gets.
C10_Branch ==
    /\ [](panic = "" /\ state[1] # "Blocked" /\ Len(Written) <= 1)
    /\ [](state[1] = "Complete" => Written = <<Expected(puts[1])>>)
    /\ <>(state[1] = "Complete" /\ last_get = <<Some(Expected(puts[1]))>>)

\* The position-mode program was given a negative value and the test got 1.
C10_Witness ==
    /\ program[1] = JumpPosition
    /\ puts[1] < 0
    /\ state[1] = "Complete"
    /\ last_get = <<Some(1)>>
    /\ channels[2] = <<>>

IsPrefix(s, t) == Len(s) <= Len(t) /\ s = SubSeq(t, 1, Len(s))

\* The first process was created from `data`, in a run that keeps its values
\* as bytes (w) or as numbers.
Runs(data, w) == IF wide = w THEN program[1] = data ELSE FALSE

\* What the first process has written so far, and what the gets returned, in
\* a run that keeps its values as bytes (w) or as numbers.
RunOutput(w) == IF wide = w THEN gets \o channels[2] ELSE <<>>

RunGot(w) == IF wide = w THEN gets ELSE <<>>

IsQuineRun == IF variant = "d21" THEN Runs(Quine, FALSE) ELSE FALSE

\* C11: the self-reproducing program, run in the relative-mode machine with
\* nothing on its input, never blocks and never panics; what it has written
\* is always a prefix of its own words; it does return Complete, and the
\* output channel then holds its 16 words in order, which is what the gets
\* return.
C11_SelfReproduction ==
    /\ [](IsQuineRun =>
             (/\ panic = ""
              /\ state[1] # "Blocked"
              /\ IsPrefix(RunOutput(FALSE), Quine)))
    /\ [](IsQuineRun /\ state[1] = "Complete" => RunOutput(FALSE) = Quine)
    /\ (IsQuineRun => <>(state[1] = "Complete" /\ RunGot(FALSE) = Quine))

\* execute has returned Complete and no get has been made yet: the output
\* channel holds the sixteen words.
C11_Witness ==
    /\ IsQuineRun
    /\ state[1] = "Complete"
    /\ gets = <<>>
    /\ Len(channels[2]) = 16
    /\ channels[2] = program[1]
    /\ channels[1] = <<>>

\* C12: in a run that keeps the full 64 bits of every value, the program
\* 104,1125899906842624,99 writes exactly 1125899906842624 and the program
\* 1102,34915192,34915192,7,4,7,99,0 writes exactly 1219070632396864, neither
\* of which fits in 32 bits; neither run blocks or panics, the product is in
\* cell 7 when the second returns, and the gets return these values.
C12_WideIntegers ==
    /\ ~Fits(BigValue) /\ ~Fits(BigProduct)
    /\ [](Runs(BigNumber, TRUE) \/ Runs(BigMultiply, TRUE) =>
             (/\ panic = ""
              /\ state[1] # "Blocked"
              /\ Len(RunOutput(TRUE)) <= 1))
    /\ [](Runs(BigNumber, TRUE) /\ state[1] = "Complete" =>
             RunOutput(TRUE) = <<BigValue>>)
    /\ [](Runs(BigMultiply, TRUE) /\ state[1] = "Complete" =>
             (/\ RunOutput(TRUE) = <<BigProduct>>
              /\ Load(memory[1], 7) = BigProduct))
    /\ (Runs(BigNumber, TRUE) \/ Runs(BigMultiply, TRUE) =>
           <>(state[1] = "Complete" /\ Len(RunGot(TRUE)) = 1))

\* The multiplying program has returned Complete in the relative-mode
\* machine and the test has got the product.
C12_Witness ==
    /\ wide
    /\ variant = "d21"
    /\ program[1] = BigMultiply
    /\ state[1] = "Complete"
    /\ gets = <<BigProduct>>
    /\ channels[2] = <<>>
    /\ Load(memory[1], 7) # Resize(Resize(BigProduct, 4), I64_BYTES)

(***************************************************************************)
(* Claims about the network.                                               *)
(***************************************************************************)
\* The step is a call of get() on the Nic of address a.
IsGet(a) == last_op'.op = "get" /\ last_op'.nic = a

\* C13: a read of a NIC always returns a value; the first read of a NIC
\* returns its address and leaves its queue alone, every later read returns
\* the oldest queued value and removes it, or -1 when nothing is queued.
C13_NicInput ==
    [][\A a \in Addresses :
          IsGet(a) =>
             /\ last_op'.value # None
             /\ IF last_read[a] = "none"
                THEN /\ last_op'.value = Some(a)
                     /\ interfaces'[a].input_buffer = interfaces[a].input_buffer
                ELSE IF interfaces[a].input_buffer # <<>>
                THEN /\ last_op'.value = Some(Head(interfaces[a].input_buffer))
                     /\ interfaces'[a].input_buffer = Tail(interfaces[a].input_buffer)
                ELSE /\ last_op'.value = Some(-1)
                     /\ interfaces'[a].input_buffer = <<>>]_vars

\* NIC 1 has read its address, polled an empty queue, and NIC 0 has just read
\* the last value of a packet while a second packet is still queued.
C13_Witness ==
    /\ panic = ""
    /\ last_read[1] = "empty"
    /\ interfaces[1].got_index
    /\ last_op.op = "get"
    /\ last_op.nic = 0
    /\ last_op.value = Some(2)
    /\ last_read[0] = "value"
    /\ interfaces[0].input_buffer = <<1, 2>>

\* The step is a call of put() on the Nic of address a.
IsPut(a) == last_op'.op = "put" /\ last_op'.nic = a

\* C14: while the run has not panicked the output_buffer of every NIC holds
\* 0, 1 or 2 values; a put on a buffer of fewer than two values only appends
\* its value to it, dispatching nothing and changing no queue and not the
\* NAT; a put on a buffer of two values passes (first, second, value) to
\* Router::send and, unless the dispatch panics, leaves the buffer empty.
C14_NicOutput ==
    /\ [](panic = "" =>
             \A a \in Addresses : Len(interfaces[a].output_buffer) \in 0..2)
    /\ [][\A a \in Addresses :
             IsPut(a) =>
                LET buffer == interfaces[a].output_buffer
                    value == last_op'.value[1]
                IN  IF Len(buffer) < 2
                    THEN /\ last_op'.sent = <<>>
                         /\ interfaces'[a].output_buffer = Append(buffer, value)
                         /\ nat' = nat
                         /\ panic' = ""
                         /\ \A b \in Addresses :
                               interfaces'[b].input_buffer = interfaces[b].input_buffer
                    ELSE /\ last_op'.sent = <<<<buffer[1], buffer[2], value>>>>
                         /\ panic' = "" => interfaces'[a].output_buffer = <<>>
                         /\ \A b \in Addresses \ {a} :
                               interfaces'[b].output_buffer =
                                  interfaces[b].output_buffer]_vars

\* NIC 0 has just written the third value of a packet for NIC 1, which was
\* dispatched, while NIC 1 is in the middle of a packet of its own.
C14_Witness ==
    /\ panic = ""
    /\ last_op.op = "put"
    /\ last_op.nic = 0
    /\ last_op.value = Some(2)
    /\ last_op.sent = <<<<1, 1, 2>>>>
    /\ interfaces[0].output_buffer = <<>>
    /\ interfaces[1].output_buffer = <<NAT_ADDRESS, 3>>
    /\ interfaces[1].input_buffer = <<1, 2>>

\* C15: a packet (d, x, y) passed to Router::send with d the address of a
\* NIC appends x, y to the input_buffer of that NIC, leaving the
\* input_buffer of every other NIC and the buffer of the NAT as they were;
\* with d = 255 it becomes the buffer of the NAT and the input_buffer of
\* every NIC stays as it was.
C15_Routing ==
    [][\A k \in DOMAIN last_op'.sent :
          LET d == last_op'.sent[k][1]
              x == last_op'.sent[k][2]
              y == last_op'.sent[k][3]
          IN  /\ d \in Addresses =>
                    /\ interfaces'[d].input_buffer =
                          interfaces[d].input_buffer \o <<x, y>>
                    /\ \A b \in Addresses \ {d} :
                          interfaces'[b].input_buffer = interfaces[b].input_buffer
                    /\ nat'.buffer = nat.buffer
              /\ d = NAT_ADDRESS =>
                    /\ nat'.buffer = Some(<<x, y>>)
                    /\ \A b \in Addresses :
                          interfaces'[b].input_buffer = interfaces[b].input_buffer]_vars

\* NIC 1 has just dispatched a packet for the NAT, which holds it, after a
\* packet for NIC 0 of which NIC 0 has read the x: its queue holds the y.
C15_Witness ==
    /\ panic = ""
    /\ last_op.op = "put"
    /\ last_op.nic = 1
    /\ last_op.sent = <<<<NAT_ADDRESS, 3, 2>>>>
    /\ nat.buffer = Some(<<3, 2>>)
    /\ interfaces[0].input_buffer = <<2>>
    /\ interfaces[1].input_buffer = <<>>

\* The network is idle as the specification words it: every NIC has an empty
\* input queue, an empty output-assembly buffer, and its latest read found
\* nothing queued.
NetworkIdle ==
    \A a \in Addresses :
       /\ interfaces[a].input_buffer = <<>>
       /\ interfaces[a].output_buffer = <<>>
       /\ last_read[a] = "empty"

\* C16: Router::network_idle() is true exactly when every NIC has an empty
\* input queue, an empty output-assembly buffer, and a latest read that got
\* no value (it found nothing queued and returned -1).
C16_NetworkIdle == Router_network_idle(interfaces) <=> NetworkIdle

\* The network is idle after traffic: the NAT holds a packet and both NICs
\* have polled an empty queue since.
C16_Witness ==
    /\ panic = ""
    /\ Router_network_idle(interfaces)
    /\ nat.buffer # None
    /\ started = MaxPackets
    /\ last_op.op = "get"
    /\ last_op.value = Some(-1)

\* The step is a call of the poll callback.
IsPoll == last_op'.op = "poll"

\* C17: a NAT poll made while the network is idle and the NAT holds a packet
\* passes (0, x, y) of that packet to Router::send, which appends x, y to the
\* input queue of NIC 0, and records the packet as last sent; any other poll
\* dispatches nothing and changes no input queue and nothing of the NAT.
C17_NatPoll ==
    [][IsPoll =>
          IF NetworkIdle /\ nat.buffer # None
          THEN /\ last_op'.sent = <<<<0>> \o nat.buffer[1]>>
               /\ interfaces'[0].input_buffer =
                     interfaces[0].input_buffer \o nat.buffer[1]
               /\ nat'.last_sent = nat.buffer
          ELSE /\ last_op'.sent = <<>>
               /\ nat' = nat
               /\ \A a \in Addresses :
                     interfaces'[a].input_buffer = interfaces[a].input_buffer]_vars

\* The NAT has just forwarded the packet it holds to NIC 0, whose queue was
\* empty, after the processes have written MaxPackets packets.
C17_Witness ==
    /\ panic = ""
    /\ last_op.op = "poll"
    /\ last_op.sent = <<<<0, 3, 2>>>>
    /\ interfaces[0].input_buffer = <<3, 2>>
    /\ nat.buffer = Some(<<3, 2>>)
    /\ nat.last_sent = Some(<<3, 2>>)
    /\ started = MaxPackets

\* C18: a poll prints "Duplicate Packet" exactly when it forwards a packet
\* whose (x, y) is the (x, y) of the forward before it; a poll that forwards
\* nothing, the first forward, and a forward of another pair print nothing.
C18_Duplicate ==
    [][IsPoll =>
          (last_op'.duplicate <=>
              /\ last_op'.sent # <<>>
              /\ forwarded # None
              /\ forwarded[1] = SubSeq(last_op'.sent[1], 2, 3))]_vars

\* The NAT has forwarded the same pair twice in a row, NIC 0 having read the
\* first copy in between, and the second forward printed the duplicate.
C18_Witness ==
    /\ panic = ""
    /\ last_op.op = "poll"
    /\ last_op.sent = <<<<0, 1, 2>>>>
    /\ last_op.duplicate
    /\ forwarded = Some(<<1, 2>>)
    /\ interfaces[0].input_buffer = <<1, 2>>
    /\ since_forward = 0

\* The step is a poll that forwards a packet.
IsForward == IsPoll /\ last_op'.sent # <<>>

\* C19: a forward leaves the network not idle, and it stays not idle until
\* NIC 0 has made three reads (the x, the y and a read that found nothing);
\* a forward other than the first comes only after these three reads, and a
\* poll that follows a forwarding poll directly forwards nothing.
C19_OncePerIdlePeriod ==
    /\ [](forwarded # None /\ since_forward < 3 =>
             ~Router_network_idle(interfaces) /\ ~NetworkIdle)
    /\ [][IsForward => forwarded = None \/ since_forward = 3]_vars
    /\ [][last_op.op = "poll" /\ last_op.sent # <<>> /\ IsPoll =>
             last_op'.sent = <<>>]_vars

\* After a forward of (1, 2) NIC 0 has read the x, the y and an empty queue,
\* the network is idle again and the NAT holds a new packet to forward.
C19_Witness ==
    /\ panic = ""
    /\ forwarded = Some(<<1, 2>>)
    /\ since_forward = 3
    /\ Router_network_idle(interfaces)
    /\ nat.buffer = Some(<<3, 2>>)
    /\ nat.last_sent = Some(<<1, 2>>)
    /\ last_op.op = "get"
    /\ last_op.nic = 0
    /\ last_op.value = Some(-1)

\* C20: the NAT holds nothing until a packet is dispatched to address 255
\* and from then on exactly the latest packet dispatched to it; a forward
\* carries the (x, y) of that latest packet.
C20_NatBuffer ==
    /\ [](nat.buffer = IF arrived = <<>>
                        THEN None
                        ELSE Some(arrived[Len(arrived)]))
    /\ [][IsForward =>
             /\ arrived # <<>>
             /\ SubSeq(last_op'.sent[1], 2, 3) = arrived[Len(arrived)]]_vars

\* Two packets have been dispatched to address 255, (1, 2) and then (3, 2),
\* and the NAT has just forwarded (3, 2).
C20_Witness ==
    /\ panic = ""
    /\ arrived = <<<<1, 2>>, <<3, 2>>>>
    /\ last_op.op = "poll"
    /\ last_op.sent = <<<<0, 3, 2>>>>
    /\ interfaces[0].input_buffer = <<3, 2>>

(***************************************************************************)
(* Functions called on their own.  call holds the name of the function and *)
(* its arguments, drawn from small sets, and then its result.              *)
(***************************************************************************)
\* The mode digits of the decoded words are 0 .. MaxDigit.
MaxDigit == 3

\* The decoded words: an opcode (of the instruction set or next to one),
\* three mode digits and a digit above them, and the same words negated.
DecodeWords ==
    LET words == {opcode + 100 * (d0 + 10 * d1 + 100 * d2 + 1000 * d3) :
                      opcode \in (0..10) \cup {98, 99}, d0 \in 0..MaxDigit,
                      d1 \in 0..MaxDigit, d2 \in 0..MaxDigit, d3 \in 0..1}
    IN  words \cup {-w : w \in words}

\* The words a decoded instruction takes its parameters from.
DecodeData == <<11, 12, 13>>

Called(name, args) == [name |-> name, args |-> args, returned |-> FALSE]

Returned(result) == [call EXCEPT !.returned = TRUE] @@ [result |-> result]

(***************************************************************************)
(* Program::parse of src/17/src/program.rs.  A string is the sequence of   *)
(* its characters.                                                         *)
(***************************************************************************)
\* str::split(',')
RECURSIVE str_split(_)
str_split(string) ==
    IF \A k \in DOMAIN string : string[k] # ","
    THEN <<string>>
    ELSE LET k == CHOOSE j \in DOMAIN string :
                      string[j] = "," /\ \A h \in 1..(j - 1) : string[h] # ","
         IN  <<SubSeq(string, 1, k - 1)>> \o str_split(SubSeq(string, k + 1, Len(string)))

\* str::trim
str_trim(string) ==
    LET inside == {k \in DOMAIN string : string[k] \notin {" ", "\n", "\t", "\r"}}
    IN  IF inside = {} THEN <<>>
        ELSE SubSeq(string, CHOOSE k \in inside : \A j \in inside : k <= j,
                            CHOOSE k \in inside : \A j \in inside : k >= j)

DecimalDigits == <<"0", "1", "2", "3", "4", "5", "6", "7", "8", "9">>

to_digit(c) == (CHOOSE d \in DOMAIN DecimalDigits : DecimalDigits[d] = c) - 1

\* The magnitude of a string of digits, in twice the bytes of an i64.
RECURSIVE magnitude(_)
magnitude(digits) ==
    IF digits = <<>> THEN Resize(FromInt(0), 2 * I64_BYTES)
    ELSE CHOOSE r \in {BytesAdd(BytesMul(front, Resize(FromInt(10), 2 * I64_BYTES)),
                                 Resize(FromInt(to_digit(digits[Len(digits)])),
                                        2 * I64_BYTES)) :
                           front \in {magnitude(SubSeq(digits, 1, Len(digits) - 1))}} : TRUE

\* i64::from_str: an optional sign and at least one digit; a value outside
\* the range of i64 is an error (the checked_mul, checked_add or checked_sub
\* of a digit fails).
i64_from_str(src) ==
    IF src = <<>> THEN [ok |-> FALSE]
    ELSE LET digits == IF src[1] \in {"+", "-"} THEN Tail(src) ELSE src
             checked(value) ==
                 IF Resize(Resize(value, I64_BYTES), 2 * I64_BYTES) # value
                 THEN [ok |-> FALSE]
                 ELSE [ok |-> TRUE, value |-> Resize(value, I64_BYTES)]
         IN  IF digits = <<>> \/ \E k \in DOMAIN digits :
                                    \A d \in DOMAIN DecimalDigits : DecimalDigits[d] # digits[k]
             THEN [ok |-> FALSE]
             ELSE CHOOSE r \in {checked(value) :
                                    value \in {IF src[1] = "-"
                                               THEN BytesNeg(magnitude(digits))
                                               ELSE magnitude(digits)}} : TRUE

\* A parse that leaves out the tokens that are no integers.
Program_parse_skips(data_string) ==
    LET tokens == str_split(data_string)
        parsed == [k \in DOMAIN tokens |-> i64_from_str(str_trim(tokens[k]))]
        RECURSIVE collect(_)
        collect(k) == IF k > Len(parsed) THEN <<>>
                      ELSE IF parsed[k].ok THEN <<parsed[k].value>> \o collect(k + 1)
                      ELSE collect(k + 1)
    IN  [ok |-> TRUE, data |-> collect(1)]

\* Program::parse: Err, or Ok(Program { data }).
\* (The tokens are parsed once.)
Program_parse(data_string) ==
    LET collect(parsed) ==
            IF \E k \in DOMAIN parsed : ~parsed[k].ok
            THEN [ok |-> FALSE]
            ELSE [ok |-> TRUE, data |-> [k \in DOMAIN parsed |-> parsed[k].value]]
    IN  CHOOSE r \in {collect(parsed) :
                          parsed \in {[k \in DOMAIN tokens |->
                                          i64_from_str(str_trim(tokens[k]))] :
                                      tokens \in {str_split(data_string)}}} : TRUE

\* An input of Program::parse has MaxTokens tokens at most.
MaxTokens == 2

\* 9223372036854775807 and 9223372036854775808
MaxText == <<"9", "2", "2", "3", "3", "7", "2", "0", "3", "6", "8", "5", "4", "7", "7",
             "5", "8", "0", "7">>

OverText == <<"9", "2", "2", "3", "3", "7", "2", "0", "3", "6", "8", "5", "4", "7", "7",
              "5", "8", "0", "8">>

I64_MAX == [k \in 1..I64_BYTES |-> IF k = I64_BYTES THEN BYTE \div 2 - 1 ELSE BYTE - 1]

\* The tokens of the inputs: the text between two commas, and the i64 it
\* stands for after trimming (none when it is no integer of 64 bits).
Tokens ==
    {[text |-> <<"1">>, value |-> Some(FromInt(1))],
     [text |-> <<"-", "2">>, value |-> Some(FromInt(-2))],
     [text |-> <<"+", "3">>, value |-> Some(FromInt(3))],
     [text |-> <<" ", "4", "0", " ">>, value |-> Some(FromInt(40))],
     [text |-> <<"0", "7", "\n">>, value |-> Some(FromInt(7))],
     [text |-> MaxText, value |-> Some(I64_MAX)],
     [text |-> <<"-">> \o OverText, value |-> Some(I64_MIN)],
     [text |-> OverText, value |-> None],
     [text |-> <<>>, value |-> None],
     [text |-> <<"\n">>, value |-> None],
     [text |-> <<"x">>, value |-> None],
     [text |-> <<"-">>, value |-> None],
     [text |-> <<"1", " ", "2">>, value |-> None],
     [text |-> <<"1", ".", "5">>, value |-> None]}

\* The tokens with a comma between each two.
RECURSIVE Join(_)
Join(tokens) ==
    IF Len(tokens) = 1 THEN tokens[1].text
    ELSE tokens[1].text \o <<",">> \o Join(Tail(tokens))

\* self and parameter of a call of resolve: values and relative bases
\* around both ends of the memory (and i64::MIN in a run on 64-bit values),
\* and the first cells of the memory, whose other cells hold 0.
ResolveArgs ==
    LET wider(set) == IF wide THEN {FromInt(n) : n \in set} \cup {I64_MIN} ELSE set
    IN  [mode : {"Position", "Immediate", "Relative"},
         value : wider({-1, 0, 1, 2, MEMORY_SIZE - 1, MEMORY_SIZE}),
         relative_base : wider({-2, 0, 1, MEMORY_SIZE - 1}),
         cells : {[k \in DOMAIN cells |-> Val(cells[k])] :
                     cells \in {<<7, 8, 9>>, <<3, 0, 5>>}}]

CallInit ==
    /\ program = <<>>
    /\ memory = <<>>
    /\ instruction_pointer = <<>>
    /\ relative_base = <<>>
    /\ input = <<>>
    /\ output = <<>>
    /\ state = <<>>
    /\ first = <<>>
    /\ blocks = <<>>
    /\ panic = ""
    /\ channels = <<>>
    /\ NoSched
    /\ NoChannelTest
    /\ NoNet
    /\ \/ /\ variant \in Variants
          /\ wide = FALSE
          /\ profile = "debug"
          /\ \E word \in DecodeWords : call = Called("Instruction::parse", <<word>>)
       \/ /\ variant = "d21"
          /\ wide \in BOOLEAN
          /\ profile \in Profiles
          /\ \E args \in ResolveArgs : call = Called("Process::resolve", args)
       \/ /\ variant = "d21"
          /\ wide = TRUE
          /\ profile = "debug"
          /\ \E tokens \in UNION {[1..n -> Tokens] : n \in 1..MaxTokens} :
                call = Called("Program::parse", [input |-> Join(tokens), tokens |-> tokens])

\* Instruction::parse(&memory[0..]) of a memory that starts with the word.
CallParse ==
    /\ call.name = "Instruction::parse"
    /\ ~call.returned
    /\ call' = Returned(Instruction_parse(variant,
                            Memory(MEMORY_SIZE, <<call.args[1]>> \o DecodeData), 0))
    /\ UNCHANGED <<vmvars, channels, schedvars, chanvars, netvars>>

\* The process resolve is called on.
ResolveSelf(args) ==
    [memory |-> Memory(MEMORY_SIZE, args.cells),
     instruction_pointer |-> 0,
     relative_base |-> args.relative_base]

\* self.resolve(&parameter); self is borrowed and is the same afterwards.
CallResolve ==
    /\ call.name = "Process::resolve"
    /\ ~call.returned
    /\ \E p \in {ResolveSelf(call.args)} :
          call' = Returned([resolved |-> resolve(p, [mode |-> call.args.mode,
                                                    value |-> call.args.value]),
                           self |-> p])
    /\ UNCHANGED <<vmvars, channels, schedvars, chanvars, netvars>>

\* Program::parse(input)
CallProgramParse ==
    /\ call.name = "Program::parse"
    /\ ~call.returned
    /\ call' = Returned(Program_parse(call.args.input))
    /\ UNCHANGED <<vmvars, channels, schedvars, chanvars, netvars>>

CallNext ==
    \/ CallParse
    \/ CallResolve
    \/ CallProgramParse

CallSpec == CallInit /\ [][CallNext]_vars

\* The name of the instruction with an opcode, "" where there is none.
NameOf(opcode) ==
    CASE opcode = 1 -> "Add"
      [] opcode = 2 -> "Mul"
      [] opcode = 3 -> "Input"
      [] opcode = 4 -> "Output"
      [] opcode = 5 -> "JumpIfTrue"
      [] opcode = 6 -> "JumpIfFalse"
      [] opcode = 7 -> "LessThan"
      [] opcode = 8 -> "Equals"
      [] opcode = 9 -> "RelativeBaseOffset"
      [] opcode = 99 -> "Exit"
      [] OTHER -> ""

\* The number of parameters of the instruction with a name.
Arity(name) ==
    CASE name \in {"Add", "Mul", "LessThan", "Equals"} -> 3
      [] name \in {"JumpIfTrue", "JumpIfFalse"} -> 2
      [] name \in {"Input", "Output", "RelativeBaseOffset"} -> 1
      [] OTHER -> 0

\* The decimal digit of w that stands for the mode of parameter i.
DigitOf(w, i) == (w \div pow(10, i + 2)) % 10

ModeOf(digit) ==
    CASE digit = 0 -> "Position"
      [] digit = 1 -> "Immediate"
      [] digit = 2 -> "Relative"
      [] OTHER -> ""

\* The call of a function has returned.
HasReturned(name) == call # <<>> /\ call.name = name /\ call.returned

\* C21: a non-negative word w decodes to the instruction whose opcode is
\* w mod 100, and parameter i of that instruction has the mode named by the
\* decimal digit floor(w / 10^(i+2)) mod 10 (0 Position, 1 Immediate,
\* 2 Relative), whatever the other digits of w are; a decoded instruction
\* is never taken from other digits.
C21_Decode ==
    HasReturned("Instruction::parse") /\ variant = "d21" /\ call.args[1] >= 0 =>
        LET w == call.args[1]
            name == NameOf(w % 100)
            valid == /\ name # ""
                     /\ \A i \in 0..(Arity(name) - 1) : DigitOf(w, i) \in 0..2
        IN  IF valid
            THEN /\ call.result.name = name
                 /\ \A i \in 0..(Arity(name) - 1) :
                        /\ Operands(call.result)[i + 1].mode = ModeOf(DigitOf(w, i))
                        /\ Operands(call.result)[i + 1].value = DecodeData[i + 1]
            ELSE call.result.name = "Panic"

\* The word 21002 has been decoded: a Mul whose parameters are Position,
\* Immediate and Relative.
C21_Witness ==
    /\ HasReturned("Instruction::parse")
    /\ variant = "d21"
    /\ call.args = <<21002>>
    /\ call.result = [name |-> "Mul",
                      x |-> [mode |-> "Position", value |-> 11],
                      y |-> [mode |-> "Immediate", value |-> 12],
                      output |-> [mode |-> "Relative", value |-> 13]]

\* C29: Program::parse fails, and yields no Program, when one of the
\* comma-separated tokens of its input is not a signed integer (of 64 bits)
\* after its surrounding whitespace is trimmed; when every token is one,
\* the Program holds their values in the order of the input.
C29_ProgramParse ==
    HasReturned("Program::parse") =>
        LET tokens == call.args.tokens
        IN  IF \E k \in DOMAIN tokens : tokens[k].value = None
            THEN call.result = [ok |-> FALSE]
            ELSE call.result =
                     [ok |-> TRUE, data |-> [k \in DOMAIN tokens |-> tokens[k].value[1]]]

\* The input "1,x" has been refused: its first token is an integer, its
\* second is not.
C29_Witness ==
    /\ HasReturned("Program::parse")
    /\ call.args.input = <<"1", ",", "x">>
    /\ call.result = [ok |-> FALSE]

\* The address relative_base + value as a number: -1 when it is no index of
\* the memory.
AddressOf(base, value) ==
    IF wide
    THEN LET sum == BytesAdd(Resize(base, 2 * I64_BYTES), Resize(value, 2 * I64_BYTES))
         IN  IF Fits(sum) /\ ToInt(sum) \in 0..(MEMORY_SIZE - 1) THEN ToInt(sum) ELSE -1
    ELSE IF base + value \in 0..(MEMORY_SIZE - 1) THEN base + value ELSE -1

\* The cell at an address of the memory with the given first cells.
CellOf(cells, address) ==
    IF address < Len(cells) THEN cells[address + 1] ELSE Val(0)

\* C23: resolve of an Immediate parameter is its value; of a Position
\* parameter the cell at value; of a Relative parameter the cell at
\* relative_base + value; for every memory, relative base and value whose
\* address is inside the memory.  The process is the same after the call.
C23_Resolve ==
    HasReturned("Process::resolve") =>
        LET args == call.args
            address == CASE args.mode = "Position" -> AddressOf(Val(0), args.value)
                         [] args.mode = "Relative" ->
                                AddressOf(args.relative_base, args.value)
                         [] OTHER -> 0
        IN  /\ call.result.self = ResolveSelf(args)
            /\ args.mode = "Immediate" =>
                   call.result.resolved = [ok |-> TRUE, value |-> args.value]
            /\ args.mode # "Immediate" /\ address # -1 =>
                   call.result.resolved =
                       [ok |-> TRUE, value |-> CellOf(args.cells, address)]

\* A Relative parameter -1 with relative base 1 has been resolved on a
\* memory that starts with 7, 8, 9: the value is 7, that of cell 0.
C23_Witness ==
    /\ HasReturned("Process::resolve")
    /\ ~wide
    /\ call.args = [mode |-> "Relative", value |-> -1, relative_base |-> 1,
                    cells |-> <<7, 8, 9>>]
    /\ call.result.resolved = [ok |-> TRUE, value |-> 7]

(***************************************************************************)
(* A caller of a single process of src/21, as in run_program of src/17: it *)
(* may patch a cell with set before the first execute, then puts values on *)
(* the input channel, calls execute and gets from the output channel.  The *)
(* programs run into the errors of the decoder and of the memory.          *)
(***************************************************************************)
\* An Add writes the word 304 to cell 4, where the next instruction is.
DecodeFault == <<1101, 300, 4, 4, 0, 1, 99>>

UnknownOpcode == <<104, 7, 98>>

\* Every writing instruction with a Relative destination.
RelativeWrites == <<109, 30, 21101, 2, 3, -2, 21102, 2, 3, -1, 21107, 2, 3, 0,
                    21108, 3, 3, 1, 203, 2, 99>>

\* An Add with an Immediate destination.
ImmediateAdd == <<11101, 2, 3, 5, 99, 0>>

\* The relative base moved by a Position, a Relative and an Immediate
\* offset (to 4, 208 and 203), then an Input and an Output of its cell.
BaseOffsets == <<9, 3, 209, 4, 109, -5, 3, 12, 204, -191, 99>>

\* An Add whose destination is both its operands and its own opcode word, a
\* Mul and a LessThan that overwrite their first parameter word (the Mul's
\* is its operand cell), an Equals that overwrites its destination word,
\* and an Add that stores a Halt in the word that follows it.
SelfWrites == <<1, 0, 0, 0, 1002, 5, 3, 5, 7, 3, 8, 9, 1108, 13, 13, 13,
                1101, 50, 49, 20, 0>>

\* A Halt followed by an Output and a second Halt.
HaltThenOutput == <<99, 104, 7, 99>>

\* The programs of the runs.  After those above: a negative word; an Output
\* whose second mode digit, of a parameter it does not have, is 3; every
\* writing instruction with a Position destination; an Input with an
\* Immediate destination; then addresses outside the memory or at its end,
\* for an operand, a destination, an Input, a jump, and relative ones.
ExecPrograms ==
    <<DecodeFault, UnknownOpcode, RelativeWrites, ImmediateAdd, Echo, BaseOffsets,
      HaltThenOutput, SelfWrites,
      <<99, 1101, 2, 3, 0, 99>>,
      <<104, 7, -1>>,
      <<3104, 7, 99>>,
      <<1, 0, 0, 30, 2, 0, 0, 31, 7, 0, 0, 32, 8, 0, 0, 33, 3, 34, 99>>,
      <<103, 3, 99, 0>>,
      <<104, 7, 4, MEMORY_SIZE, 99>>,
      <<4, MEMORY_SIZE - 1, 99>>,
      <<1101, 1, 1, MEMORY_SIZE, 99>>,
      <<1101, 1, 1, -1, 99>>,
      <<3, MEMORY_SIZE, 99>>,
      <<1105, 1, MEMORY_SIZE>>,
      <<109, -1, 204, 0, 99>>,
      <<109, MEMORY_SIZE, 21101, 1, 1, 0, 99>>>>

\* A relative read whose address is below the range of isize:
\* 109,i64::MIN,204,i64::MIN,99.
WrapRead == <<FromInt(109), I64_MIN, FromInt(204), I64_MIN, FromInt(99)>>

\* The programs of the runs on 64-bit values: WrapRead, the same with an
\* Add as the writer, and RelativeWrites.
WideExecPrograms ==
    <<WrapRead,
      <<FromInt(109), I64_MIN, FromInt(21101), FromInt(1), FromInt(1), I64_MIN,
        FromInt(99)>>,
      Encode(RelativeWrites)>>

\* The Program is parsed and both channels exist; the Process does not yet.
ExecInit ==
    /\ variant = "d21"
    /\ \/ /\ wide = FALSE
          /\ profile = "debug"
          /\ \E k \in 1..Len(ExecPrograms) : program = <<ExecPrograms[k]>>
       \/ /\ wide = TRUE
          /\ profile \in Profiles
          /\ \E k \in 1..Len(WideExecPrograms) : program = <<WideExecPrograms[k]>>
    /\ memory = <<None>>
    /\ instruction_pointer = <<None>>
    /\ relative_base = <<None>>
    /\ state = <<"Unbuilt">>
    /\ first = <<"">>
    /\ blocks = <<0>>
    /\ panic = ""
    /\ input = <<1>>
    /\ output = <<2>>
    /\ channels = <<<<>>, <<>>>>
    /\ NoSched
    /\ NoChannelTest
    /\ NoNet
    /\ NoCall

\* Process::new("Robot", program, &input, &output) by the caller.
ExecNew ==
    /\ state[1] = "Unbuilt"
    /\ \E p \in {Process_new(variant, program[1])} :
          /\ memory' = <<p.memory>>
          /\ instruction_pointer' = <<p.instruction_pointer>>
          /\ relative_base' = <<p.relative_base>>
    /\ state' = <<"New">>
    /\ UNCHANGED <<variant, wide, profile, program, input, output, first, blocks, panic,
                   channels, schedvars, chanvars, netvars, call>>

\* A set that patches the cell after the one it is given.
Process_set_shifted(p, address, value) ==
    IF InBounds(p.memory, address)
    THEN [ok |-> TRUE, proc |-> [p EXCEPT !.memory = Store(@, address + 1, value)]]
    ELSE [ok |-> FALSE, proc |-> p]

\* Process::set
Process_set(p, address, value) ==
    IF InBounds(p.memory, address)
    THEN [ok |-> TRUE, proc |-> [p EXCEPT !.memory = Store(@, address, value)]]
    ELSE [ok |-> FALSE, proc |-> p]

\* process.set(address, value) by the caller, before the first execute.
ExecSet(address, value) ==
    /\ panic = ""
    /\ state[1] = "New"
    /\ call = <<>>
    /\ call' = [Called("Process::set", <<address, value>>) EXCEPT !.returned = TRUE]
    /\ \E r \in {Process_set(Proc(1), address, Val(value))} :
          /\ memory' = [memory EXCEPT ![1] = r.proc.memory]
          /\ panic' = IF r.ok THEN panic ELSE "panic"
    /\ UNCHANGED <<variant, wide, profile, program, instruction_pointer, relative_base,
                   input, output, state, first, blocks, channels, schedvars, chanvars,
                   netvars>>

ExecNext ==
    \/ ExecNew
    \/ \E address \in {0, 1, MEMORY_SIZE}, value \in {2, 99} : ExecSet(address, value)
    \/ \E value \in InputValues : Put(1, Val(value))
    \/ Get(2)
    \/ state[1] # "Unbuilt" /\ Call(1)
    \/ Step(1) /\ Len(channels'[2]) <= MaxQueue

ExecSpec == ExecInit /\ [][ExecNext]_vars

\* The word at the instruction pointer as a number, when there is one (in a
\* run that keeps its values as bytes, when the model has that number).
AtWord ==
    /\ InBounds(memory[1], instruction_pointer[1])
    /\ wide => Fits(Load(memory[1], instruction_pointer[1]))

WordAt ==
    IF ~AtWord THEN 0
    ELSE IF wide THEN ToInt(Load(memory[1], instruction_pointer[1]))
    ELSE Load(memory[1], instruction_pointer[1])

\* The process takes the next step of the run: an iteration of execute.
Executing == panic = "" /\ state[1] = "Running"

\* The word has an opcode outside the instruction set, or a mode digit of
\* one of the parameters of its instruction that is no mode.  The opcode of
\* a negative word is negative or 0, as the remainder of the source is.
DecodeError(w) ==
    \/ w < 0
    \/ NameOf(w % 100) = ""
    \/ \E i \in 0..(Arity(NameOf(w % 100)) - 1) : DigitOf(w, i) \notin 0..2

\* C22: when the word at the instruction pointer has an opcode outside
\* 1..9, 99 or an invalid mode digit for one of its instruction's
\* parameters, the iteration aborts the run: memory, instruction pointer,
\* relative base and both channels are as they were (nothing written, put
\* or consumed), and no step of any kind follows an abort.
C22_DecodeErrorFatal ==
    [][/\ panic = ""
       /\ Executing /\ AtWord /\ DecodeError(WordAt) =>
              /\ panic' = "panic"
              /\ memory' = memory
              /\ channels' = channels
              /\ instruction_pointer' = instruction_pointer
              /\ relative_base' = relative_base]_vars

\* The Add of DecodeFault has written 304 to cell 4 and the run has aborted
\* on that word.
C22_Witness ==
    /\ Runs(DecodeFault, FALSE)
    /\ panic = "panic"
    /\ instruction_pointer[1] = 4
    /\ Load(memory[1], 4) = 304
    /\ DecodeError(304)
    /\ channels = <<<<5>>, <<>>>>

\* The instructions that write memory.
Writers == {"Add", "Mul", "Input", "LessThan", "Equals"}

\* The instruction the word at the instruction pointer stands for.
NameAt == NameOf(WordAt % 100)

\* Parameter i of the instruction at the instruction pointer: its word, its
\* mode digit and the address it names (-1 when outside the memory).
ParameterAt(i) == Load(memory[1], instruction_pointer[1] + 1 + i)

DigitAt(i) == DigitOf(WordAt, i)

AddressAt(i) ==
    IF DigitAt(i) = 2 THEN AddressOf(relative_base[1], ParameterAt(i))
    ELSE AddressOf(Val(0), ParameterAt(i))

\* Operand i of the instruction can be read, and its value.
Readable(i) == DigitAt(i) = 1 \/ AddressAt(i) # -1

OperandAt(i) ==
    IF DigitAt(i) = 1 THEN ParameterAt(i) ELSE Load(memory[1], AddressAt(i))

\* The destination of the writing instruction at the instruction pointer.
DestinationAt == Arity(NameAt) - 1

\* The value the writing instruction at the instruction pointer stores.
ResultAt ==
    CASE NameAt = "Add" -> OperandAt(0) + OperandAt(1)
      [] NameAt = "Mul" -> OperandAt(0) * OperandAt(1)
      [] NameAt = "LessThan" -> IF OperandAt(0) < OperandAt(1) THEN 1 ELSE 0
      [] NameAt = "Equals" -> IF OperandAt(0) = OperandAt(1) THEN 1 ELSE 0
      [] NameAt = "Input" -> channels[1][1]

\* The process is about to run a writing instruction whose operands can be
\* read (an Input has a value to take) and whose destination has the given
\* mode digits and names a cell of the memory, in a run that keeps its
\* values as integers.
AboutToWrite(digits) ==
    /\ ~wide
    /\ Executing /\ AtWord /\ ~DecodeError(WordAt)
    /\ NameAt \in Writers
    /\ instruction_pointer[1] + Arity(NameAt) < MEMORY_SIZE
    /\ DigitAt(DestinationAt) \in digits
    /\ AddressAt(DestinationAt) # -1
    /\ \A i \in 0..(DestinationAt - 1) : Readable(i)
    /\ NameAt = "Input" => channels[1] # <<>>

\* The step changes the cell at the address to the value and no other cell.
Writes(address, value) ==
    /\ Load(memory'[1], address) = value
    /\ \A a \in 0..(Len(memory[1].cells) + Len(memory'[1].cells)) :
           a # address => Load(memory'[1], a) = Load(memory[1], a)

\* C24: an Add, Mul, Input, LessThan or Equals whose destination is in
\* Position mode stores its result in the cell at the parameter's value, and
\* one whose destination is in Relative mode in the cell at relative_base +
\* value (the sum is the address: no cell is read to obtain it); no other
\* cell changes, and the run goes on.
C24_WriteTarget ==
    [][AboutToWrite({0, 2}) =>
          /\ panic' = ""
          /\ Writes(AddressAt(DestinationAt), ResultAt)]_vars

\* RelativeWrites has run to its end with relative base 30 and the input 5:
\* its five writers have stored 5, 6, 1, 1 and 5 in the cells 28 to 32.
C24_Witness ==
    /\ Runs(RelativeWrites, FALSE)
    /\ state[1] = "Complete"
    /\ relative_base[1] = 30
    /\ [a \in 28..32 |-> Load(memory[1], a)] = [a \in 28..32 |-> <<5, 6, 1, 1, 5>>[a - 27]]
    /\ \A a \in 0..27 : Load(memory[1], a) = Load(Process_new("d21", RelativeWrites).memory, a)

\* C25: a writing instruction (Add, Mul, Input, LessThan, Equals) whose
\* destination has mode digit 1 is rejected: the run aborts on it and no
\* memory cell is written.
C25_ImmediateDestination ==
    [][Executing /\ AtWord /\ NameAt \in Writers /\ DigitAt(DestinationAt) = 1 =>
          /\ panic' = "panic"
          /\ memory' = memory]_vars

\* ImmediateAdd (11101,2,3,5,99,0) has run to its end: the Add with an
\* Immediate destination 5 has stored 2 + 3 in cell 5.
C25_Witness ==
    /\ Runs(ImmediateAdd, FALSE)
    /\ call = <<>>
    /\ panic = ""
    /\ state[1] = "Complete"
    /\ Load(memory[1], 5) = 5

\* The instruction at the instruction pointer reads operand i.
Reads(i) ==
    CASE NameAt \in {"Add", "Mul", "LessThan", "Equals"} -> i \in {0, 1}
      [] NameAt \in {"Output", "RelativeBaseOffset"} -> i = 0
      [] NameAt = "JumpIfTrue" ->
             i = 0 \/ (i = 1 /\ Readable(0) /\ OperandAt(0) # Val(0))
      [] NameAt = "JumpIfFalse" ->
             i = 0 \/ (i = 1 /\ Readable(0) /\ OperandAt(0) = Val(0))
      [] OTHER -> FALSE

\* The instruction at the instruction pointer writes through parameter i
\* (an Input when it has a value to take).
WritesThrough(i) ==
    /\ NameAt \in Writers
    /\ i = DestinationAt
    /\ DigitAt(i) # 1
    /\ NameAt = "Input" => channels[1] # <<>>

\* The next iteration uses an address that is negative or not below the
\* capacity of the memory: for its fetch, for an operand it reads or for its
\* destination.
Faulting ==
    /\ Executing
    /\ \/ ~InBounds(memory[1], instruction_pointer[1])
       \/ /\ AtWord /\ ~DecodeError(WordAt)
          /\ instruction_pointer[1] + Arity(NameAt) < MEMORY_SIZE
          /\ \E i \in 0..(Arity(NameAt) - 1) :
                /\ AddressAt(i) = -1
                /\ \/ Reads(i) /\ DigitAt(i) # 1
                   \/ WritesThrough(i)

\* C26: an instruction fetch, operand read or destination write whose
\* address is negative or not below the capacity of the memory aborts the
\* run at that instruction; the address is not wrapped or truncated into
\* the memory and the instruction changes no cell.
C26_OutOfBoundsFatal ==
    [][Faulting => panic' = "panic" /\ memory' = memory]_vars

\* WrapRead (109,i64::MIN,204,i64::MIN,99) has run to its end in a release
\* build: the Output at the address i64::MIN + i64::MIN has put cell 0.
C26_Witness ==
    /\ Runs(WrapRead, TRUE)
    /\ profile = "release"
    /\ call = <<>>
    /\ panic = ""
    /\ state[1] = "Complete"
    /\ relative_base[1] = I64_MIN
    /\ channels[2] = <<FromInt(109)>>

\* C27: Process::new leaves a memory of exactly MEMORY_SIZE cells that
\* holds the words of the Program in its first cells and 0 in all others,
\* with the instruction pointer 0 and the relative base 0; neither the
\* construction nor any later step changes the Program.
C27_NewProcess ==
    [][/\ program' = program
       /\ state[1] = "Unbuilt" /\ state'[1] # "Unbuilt" =>
              /\ Len(program[1]) <= MEMORY_SIZE
              /\ memory'[1].size = MEMORY_SIZE
              /\ \A i \in 0..(MEMORY_SIZE - 1) :
                     Load(memory'[1], i) =
                         IF i < Len(program[1]) THEN program[1][i + 1] ELSE Val(0)
              /\ instruction_pointer' = <<0>>
              /\ relative_base' = <<Val(0)>>]_vars

\* A Process has been made from ImmediateAdd (11101,2,3,5,99,0), whose
\* last word is 0, and has not run yet.
C27_Witness ==
    /\ Runs(ImmediateAdd, FALSE)
    /\ state[1] = "New"
    /\ call = <<>>
    /\ memory[1].size = MEMORY_SIZE
    /\ [i \in 0..6 |-> Load(memory[1], i)] = [i \in 0..6 |-> (ImmediateAdd \o <<0>>)[i + 1]]
    /\ Load(memory[1], MEMORY_SIZE - 1) = 0
    /\ instruction_pointer[1] = 0
    /\ relative_base[1] = 0

\* The caller has patched the cell at the address with the value.
SetDone(address, value) ==
    HasReturned("Process::set") /\ call.args = <<address, value>>

\* C28: a set(address, value) before the first execute changes the cell at
\* the address to the value and nothing else: no other cell, not the
\* instruction pointer, the relative base or a channel.  The execute that
\* follows starts at instruction pointer 0 on the patched memory: with
\* cell 0 patched to 99 its first iteration halts, having put nothing.
C28_Set ==
    /\ [][call = <<>> /\ call' # <<>> /\ call'.args[1] < MEMORY_SIZE =>
             /\ state[1] = "New" /\ state'[1] = "New"
             /\ panic' = ""
             /\ Writes(call'.args[1], Val(call'.args[2]))
             /\ instruction_pointer' = <<0>>
             /\ relative_base' = <<Val(0)>>
             /\ channels' = channels]_vars
    /\ [][Executing /\ first[1] = "New" =>
             /\ instruction_pointer[1] = 0
             /\ SetDone(0, 99) =>
                    /\ panic' = ""
                    /\ state'[1] = "Complete"
                    /\ instruction_pointer'[1] = 1
                    /\ memory' = memory
                    /\ channels' = channels]_vars

\* UnknownOpcode (104,7,98) has been patched with set(0, 99) and has run:
\* it has halted on the patched word and put nothing.
C28_Witness ==
    /\ Runs(UnknownOpcode, FALSE)
    /\ SetDone(0, 99)
    /\ state[1] = "Complete"
    /\ instruction_pointer[1] = 1
    /\ memory[1].cells = <<99, 7, 98>>
    /\ channels[2] = <<>>

\* C30: execute returns Blocked only from an Input that finds no value on
\* its channel and Complete only from the halt instruction, and those two
\* do return; after every other instruction (Add, Mul, Output, the jumps,
\* the comparisons, RelativeBaseOffset, an Input that finds a value) the
\* loop goes on or the run aborts: execute does not return.
C30_OneSuspensionPoint ==
    [][Executing =>
          /\ state'[1] \in {"Running", "Blocked", "Complete"}
          /\ state'[1] = "Blocked" <=>
                 /\ AtWord /\ ~DecodeError(WordAt)
                 /\ NameAt = "Input"
                 /\ instruction_pointer[1] + 1 < MEMORY_SIZE
                 /\ channels[1] = <<>>
          /\ state'[1] = "Complete" <=>
                 AtWord /\ ~DecodeError(WordAt) /\ NameAt = "Exit"]_vars

\* Echo has taken the input 5, has put it and has come back to its Input,
\* which found the channel empty: execute has returned Blocked.
C30_Witness ==
    /\ Runs(Echo, FALSE)
    /\ call = <<>>
    /\ state[1] = "Blocked"
    /\ instruction_pointer[1] = 0
    /\ Load(memory[1], 7) = 5
    /\ channels = <<<<>>, <<5>>>>

\* A word has been decoded by the earlier variant: a non-negative word with
\* an opcode of that variant (it has no opcode 9).
Decoded7 ==
    /\ HasReturned("Instruction::parse")
    /\ variant = "d7"
    /\ call.args[1] >= 0
    /\ NameOf(call.args[1] % 100) \notin {"", "RelativeBaseOffset"}

\* Parameter i of the instruction with the name carries a mode in the
\* earlier variant: it is an operand, not the address an instruction writes.
HasMode7(name, i) == i < Arity(name) /\ ~(name \in Writers /\ i = Arity(name) - 1)

\* C31: in the earlier variant the mode of parameter i of a word w is the
\* decimal digit floor(w / 10^(i+2)) mod 10 alone (0 Position,
\* 1 Immediate): a word whose operands have the digits 0 or 1 decodes to
\* its instruction with those modes, whatever its other digits are.
C31_Decode7 ==
    Decoded7 =>
        LET w == call.args[1]
            name == NameOf(w % 100)
        IN  (\A i \in 0..2 : HasMode7(name, i) => DigitOf(w, i) \in {0, 1}) =>
                /\ call.result.name = name
                /\ \A i \in 0..2 :
                       HasMode7(name, i) =>
                           Operands(call.result)[i + 1].mode = ModeOf(DigitOf(w, i))

\* The earlier variant has refused the word 10105, a JumpIfTrue whose two
\* parameters have the digits 1 and 0.
C31_Witness ==
    /\ HasReturned("Instruction::parse")
    /\ variant = "d7"
    /\ call.args = <<10105>>
    /\ DigitOf(10105, 0) = 1
    /\ DigitOf(10105, 1) = 0
    /\ call.result = PanicInstruction("decode")

\* C32: in the earlier variant a word in which a parameter of its
\* instruction, operand or destination, has the mode digit 2 is refused:
\* decoding it aborts.
C32_Mode2Refused ==
    Decoded7 =>
        LET w == call.args[1]
            name == NameOf(w % 100)
        IN  (\E i \in 0..(Arity(name) - 1) : DigitOf(w, i) = 2) =>
                call.result.name = "Panic"

\* The earlier variant has decoded the word 203, an Input whose destination
\* has the mode digit 2, to an Input that writes the cell its parameter
\* names.
C32_Witness ==
    /\ HasReturned("Instruction::parse")
    /\ variant = "d7"
    /\ call.args = <<203>>
    /\ call.result = [name |-> "Input", output |-> [mode |-> "Address", value |-> 11]]

\* The iteration of execute that is about to run decodes an
\* AdjustRelativeBase (opcode 9).
Adjusting == Executing /\ AtWord /\ ~DecodeError(WordAt) /\ NameAt = "RelativeBaseOffset"

\* The sum of the relative base and a value as the run keeps it: on 64-bit
\* values the sum in twice the width, cut to 64 bits.
BasePlus(value) ==
    IF wide
    THEN Resize(BytesAdd(Resize(relative_base[1], 2 * I64_BYTES),
                         Resize(value, 2 * I64_BYTES)), I64_BYTES)
    ELSE relative_base[1] + value

\* C33: the relative base is 0 when the process is created.  An
\* AdjustRelativeBase that completes adds its resolved offset to it and
\* changes no memory cell.  Every other step leaves it as it was: every other
\* instruction, an Input that returns Blocked, an iteration that aborts, a
\* set, a put or a get on the channels, and a call of execute.
C33_RelativeBase ==
    [][/\ state[1] = "Unbuilt" /\ state'[1] # "Unbuilt" => relative_base'[1] = Val(0)
       /\ state[1] # "Unbuilt" =>
              IF Adjusting /\ panic' = ""
              THEN /\ relative_base'[1] = BasePlus(OperandAt(0))
                   /\ memory' = memory
              ELSE relative_base' = relative_base]_vars

\* BaseOffsets has moved its relative base by the cell 3, by the cell 8
\* and by -5, has blocked on its Input with the base 203, has taken the
\* input 5 and has run to its end: the base is 203 and only cell 12 differs
\* from the program.
C33_Witness ==
    /\ Runs(BaseOffsets, FALSE)
    /\ state[1] = "Complete"
    /\ blocks[1] = 1
    /\ relative_base[1] = 4 + 204 - 5
    /\ RunOutput(FALSE) = <<5>>
    /\ \A a \in 0..20 :
           Load(memory[1], a) =
               IF a = 12 THEN 5 ELSE Load(Process_new("d21", BaseOffsets).memory, a)

\* The instruction the word at the instruction pointer names lies inside
\* the memory: its last word is at most the last cell.
Fitting ==
    /\ ~wide
    /\ Executing /\ AtWord /\ WordAt >= 0
    /\ NameOf(WordAt % 100) # ""
    /\ instruction_pointer[1] + Arity(NameOf(WordAt % 100)) < memory[1].size

\* The cell an operand of the decoded instruction names is inside the
\* memory (an operand that is a value names none); last tells whether the
\* operand is the one an instruction writes through.
InRange(parameter, last) ==
    LET base == IF parameter.mode = "Relative" THEN relative_base[1] ELSE 0
    IN  \/ parameter.mode = "Immediate" /\ ~last
        \/ base + parameter.value \in 0..(memory[1].size - 1)

\* C34: decoding an instruction reads only its own words, the opcode word
\* at the instruction pointer and its parameters, arity words in all.  When the
\* last of them is at most the last cell of the memory the decode does not
\* fail on a cell outside the memory; an instruction that is decoded and
\* whose operands name cells inside the memory runs without a fault; and the
\* instruction pointer has moved on by the arity: 4 for Add, Mul, LessThan
\* and Equals, 3 for a jump that is not taken, 2 for Input, Output and
\* AdjustRelativeBase, 1 for the Halt, which returns Complete.  (An Input
\* that finds its channel empty returns Blocked with the pointer on itself.)
C34_DecodeWithinArity ==
    [][Fitting =>
          LET ins == Instruction_parse(variant, memory[1], instruction_pointer[1])
              name == NameOf(WordAt % 100)
              arity == Arity(name) + 1
              writes == name \in Writers
              blocked == name = "Input" /\ channels[1] = <<>>
          IN  /\ ins # PanicInstruction("bounds")
              /\ ins.name # "Panic" =>
                    /\ Instruction_size(ins) = arity
                    /\ (\A k \in 1..Len(Operands(ins)) :
                            InRange(Operands(ins)[k], writes /\ k = Len(Operands(ins)))) =>
                           panic' = ""
                    /\ panic' = "" /\ ~blocked =>
                           \/ instruction_pointer'[1] = instruction_pointer[1] + arity
                           \/ /\ name = "JumpIfTrue"
                              /\ resolve(Proc(1), ins.input).value # 0
                              /\ instruction_pointer'[1] = resolve(Proc(1), ins.address).value
                           \/ /\ name = "JumpIfFalse"
                              /\ resolve(Proc(1), ins.input).value = 0
                              /\ instruction_pointer'[1] = resolve(Proc(1), ins.address).value
                    /\ name = "Exit" => state'[1] = "Complete"]_vars

\* LastCellHalt has run in the d21 machine: its Add stored 99 in cell
\* 10239, its jump went there, the Halt in the last cell returned Complete
\* and the instruction pointer is one past the memory.
C34_Witness ==
    /\ variant = "d21"
    /\ program = <<LastCellHalt>>
    /\ panic = ""
    /\ state[1] = "Complete"
    /\ Load(memory[1], MEMORY_SIZE - 1) = 99
    /\ instruction_pointer[1] = MEMORY_SIZE

\* C35: Complete is not a final state of the process.  A Complete process
\* has its instruction pointer one past the Halt it ran; execute can be
\* called on it again, which changes neither the pointer nor the memory,
\* and its first iteration decodes and runs the word that follows the Halt:
\* it aborts when there is none or it is no instruction, returns Complete
\* again one word further when it is a Halt, puts its operand when it is an
\* Output, and stores its result when it is a writing instruction.
C35_CompleteNotAbsorbing ==
    [][/\ state[1] = "Complete" /\ ~wide =>
              /\ instruction_pointer[1] > 0
              /\ Load(memory[1], instruction_pointer[1] - 1) % 100 = 99
       /\ state[1] = "Complete" /\ state'[1] # "Complete" =>
              /\ panic = ""
              /\ state'[1] = "Running"
              /\ instruction_pointer' = instruction_pointer
              /\ memory' = memory
              /\ relative_base' = relative_base
       /\ Executing /\ first[1] = "Complete" /\ ~wide =>
              /\ ~AtWord \/ DecodeError(WordAt) => panic' = "panic"
              /\ AtWord /\ ~DecodeError(WordAt) /\ NameAt = "Exit" =>
                     /\ state'[1] = "Complete"
                     /\ instruction_pointer'[1] = instruction_pointer[1] + 1
              /\ AtWord /\ ~DecodeError(WordAt) /\ NameAt = "Output" /\ Readable(0) =>
                     /\ channels'[2] = Append(channels[2], OperandAt(0))
                     /\ instruction_pointer'[1] = instruction_pointer[1] + 2
              /\ AboutToWrite({0, 2}) => Writes(AddressAt(DestinationAt), ResultAt)]_vars

\* HaltThenOutput has returned Complete from its first word, execute was
\* called again, and it has put 7 and returned Complete from its last
\* word.
C35_Witness ==
    /\ Runs(HaltThenOutput, FALSE)
    /\ call = <<>>
    /\ panic = ""
    /\ state[1] = "Complete"
    /\ instruction_pointer[1] = 4
    /\ RunOutput(FALSE) = <<7>>

\* The destination cell of the writing instruction at the instruction
\* pointer is the cell of one of its two operands or one of its own four
\* words.
Overlapping ==
    \/ AddressAt(DestinationAt) \in instruction_pointer[1]..(instruction_pointer[1] + 3)
    \/ \E i \in 0..1 : DigitAt(i) # 1 /\ AddressAt(i) = AddressAt(DestinationAt)

\* C39: an Add, Mul, LessThan or Equals whose destination cell is also the
\* cell of an operand, or one of the instruction's own words, stores the
\* result computed from the operands as the memory held them before the
\* write, at the destination decoded before the write, and goes on four
\* words further: the write does not change the instruction that makes it.
\* It does change what is decoded afterwards: a Halt that a write has put
\* at the instruction pointer returns Complete.
C39_ReadBeforeWrite ==
    [][/\ (/\ AboutToWrite({0, 2})
           /\ NameAt \in {"Add", "Mul", "LessThan", "Equals"}
           /\ Overlapping) =>
              /\ Writes(AddressAt(DestinationAt), ResultAt)
              /\ instruction_pointer'[1] = instruction_pointer[1] + 4
              /\ panic' = ""
              /\ state' = state
       /\ (/\ ~wide /\ Executing /\ AtWord
           /\ WordAt = 99
           /\ WordAt # CellOf(program[1], instruction_pointer[1])) =>
              state'[1] = "Complete"]_vars

\* SelfWrites has run to the Halt its last Add stored: cell 0 holds
\* 1 + 1, cell 5 holds 5 * 3, cell 9 holds 1 (0 < 7), cell 13 holds 1
\* (13 = 13) and cell 20 the Halt; every other cell is as in the program.
C39_Witness ==
    /\ Runs(SelfWrites, FALSE)
    /\ state[1] = "Complete"
    /\ instruction_pointer[1] = 21
    /\ memory[1].cells = <<2, 0, 0, 0, 1002, 15, 3, 5, 7, 1, 8, 9, 1108, 1, 13, 13,
                           1101, 50, 49, 20, 99>>

\* C36: a NIC is not idle when it is created and is not idle after the read
\* that returned its address: a NIC that is idle has made, as its latest
\* read, a read that found its queue empty.  So the network is not idle
\* while some NIC has made no read or only the read of its address, and
\* the NAT forwards only when the latest read of every NIC found its queue
\* empty.
C36_NotIdleAtStart ==
    /\ [](\A a \in Addresses :
             last_read[a] \in {"none", "address"} =>
                /\ ~Nic_is_idle(interfaces[a])
                /\ ~Router_network_idle(interfaces))
    /\ [](\A a \in Addresses : Nic_is_idle(interfaces[a]) => last_read[a] = "empty")
    /\ [][IsForward => \A a \in Addresses : last_read[a] = "empty"]_vars

\* The NAT holds a packet and NIC 0 has polled an empty queue, but NIC 1
\* has only read its address: the poll that has just run forwarded nothing
\* although every queue and every output buffer is empty.
C36_Witness ==
    /\ panic = ""
    /\ last_op.op = "poll"
    /\ last_op.sent = <<>>
    /\ nat.buffer # None
    /\ last_read[0] = "empty"
    /\ last_read[1] = "address"
    /\ \A a \in Addresses :
           interfaces[a].input_buffer = <<>> /\ interfaces[a].output_buffer = <<>>

\* C37: a forward leaves the packet in the buffer of the NAT: the buffer,
\* once it holds a packet, is never empty again, and it changes only when
\* a packet is dispatched to address 255.  So a forward that follows a
\* forward with no packet dispatched to 255 in between (here: only one
\* packet has ever reached 255) carries the same (x, y) and prints the
\* duplicate; in general a forward of the pair recorded as last sent does.
C37_ForwardKeepsPacket ==
    /\ [][/\ nat.buffer # None => nat'.buffer # None
          /\ nat'.buffer # nat.buffer => arrived' # arrived
          /\ nat'.last_sent # nat.last_sent => IsForward]_vars
    /\ [][IsForward =>
             /\ nat'.buffer = nat.buffer
             /\ nat'.last_sent = nat.buffer
             /\ nat.last_sent = nat.buffer => last_op'.duplicate
             /\ forwarded # None /\ Len(arrived) = 1 =>
                    /\ SubSeq(last_op'.sent[1], 2, 3) = forwarded[1]
                    /\ last_op'.duplicate]_vars

\* One packet, (1, 2), has reached address 255; the NAT has forwarded it,
\* NIC 0 has read it and polled an empty queue, and the NAT has just
\* forwarded it again, printing the duplicate, and still holds it.
C37_Witness ==
    /\ panic = ""
    /\ arrived = <<<<1, 2>>>>
    /\ last_op.op = "poll"
    /\ last_op.sent = <<<<0, 1, 2>>>>
    /\ last_op.duplicate
    /\ nat.buffer = Some(<<1, 2>>)
    /\ nat.last_sent = Some(<<1, 2>>)

\* The x values and the y values of the packets of the run.
PacketXs == {p[2] : p \in Packets}

PacketYs == {p[3] : p \in Packets}

\* C38: the x and the y of a packet enter the input queue of a NIC
\* together, at its back, and a read takes the value at its front: in every
\* step the queue of a NIC stays as it is, loses its first value to a get
\* of that NIC which returns it, or gains the x and the y of one packet
\* dispatched to that NIC at its end.  The queue is therefore whole packets
\* in arrival order, the first of them without its x when that was read: a
\* get that returns an x leaves the y of the same packet at the front.
C38_PacketIntegrity ==
    /\ [](\A b \in Addresses :
             LET queue == interfaces[b].input_buffer
             IN  \A k \in DOMAIN queue :
                    IF (Len(queue) - k) % 2 = 0
                    THEN queue[k] \in PacketYs
                    ELSE queue[k] \in PacketXs /\ queue[k] \notin PacketYs)
    /\ [][\A b \in Addresses :
             LET old == interfaces[b].input_buffer
                 new == interfaces'[b].input_buffer
             IN  /\ \/ new = old
                    \/ /\ IsGet(b)
                       /\ old # <<>>
                       /\ last_op'.value = Some(Head(old))
                       /\ new = Tail(old)
                    \/ \E k \in DOMAIN last_op'.sent :
                          /\ last_op'.sent[k][1] = b
                          /\ new = old \o SubSeq(last_op'.sent[k], 2, 3)
                 /\ IsGet(b) /\ new # old /\ Len(old) % 2 = 0 =>
                       /\ last_op'.value[1] \in PacketXs
                       /\ new[1] \in PacketYs]_vars

\* NIC 0 has read the x of a first packet and a second packet has just
\* been dispatched to it: its queue holds the y of the first and then the
\* x and the y of the second.
C38_Witness ==
    /\ panic = ""
    /\ last_op.op = "put"
    /\ last_op.sent = <<<<0, 1, 2>>>>
    /\ last_read[0] = "value"
    /\ interfaces[0].input_buffer = <<2, 1, 2>>

\* C40: a packet dispatched to a destination that is neither 255 nor the
\* address of a NIC (it is negative, or at least the number of NICs)
\* aborts the run in the dispatch: no input queue and not the NAT has
\* received it, and the run takes no further step.  A packet for 255 or
\* for a NIC does not abort the run.
C40_UnknownDestination ==
    /\ [][\A k \in DOMAIN last_op'.sent :
             IF last_op'.sent[k][1] \in Addresses \cup {NAT_ADDRESS}
             THEN panic' = ""
             ELSE /\ panic' # ""
                  /\ nat' = nat
                  /\ \A b \in Addresses :
                        interfaces'[b].input_buffer = interfaces[b].input_buffer]_vars
    /\ [][panic = ""]_vars

\* NIC 1 has written the packet (-1, 1, 2) and the run has aborted in its
\* dispatch: no queue and not the NAT holds it.
C40_Witness ==
    /\ panic # ""
    /\ last_op.op = "put"
    /\ last_op.nic = 1
    /\ last_op.sent = <<<<-1, 1, 2>>>>
    /\ nat.buffer = None
    /\ \A a \in Addresses : interfaces[a].input_buffer = <<>>

====
